---- MODULE Spec2Model ----
(***************************************************************************)
(* Request optimisation layer of src/src/utils/requestManager.js: a TTL    *)
(* cache, a table of in-flight requests used for deduplication, a          *)
(* per-endpoint burst tracker with automatic throttling, and bounded retry *)
(* with linear backoff; and the connection probe of src/src/utils/         *)
(* supabase.js, checkSupabaseConnection, as it runs in the browser.        *)
(*                                                                         *)
(* The event loop is single threaded: every action below is one run of     *)
(* synchronous code between two suspension points (await / timer).         *)
(* Time is in milliseconds.  An endpoint is the sequence of its path       *)
(* segments, so <<"auth", "health">> stands for '/auth/health'.            *)
(***************************************************************************)
EXTENDS Integers, Sequences, FiniteSets, TLC

VARIABLES
    now,              \* Date.now()
    requestCache,     \* Map: cache key -> [data, timestamp]
    pendingRequests,  \* Map: cache key -> promise (named by the slot of the call that created it)
    endpoints,        \* requestTracker.endpoints
    lastCleanup,      \* requestTracker.lastCleanup
    timers,           \* un-throttle timers scheduled by track and not yet run
    calls,            \* the invocations of optimizedRequest, one per slot
    batch,            \* the invocation of batchRequests and its Promise.all
    connectionStatus, \* connectionStatus of supabase.js
    checks,           \* the invocations of checkSupabaseConnection, one per slot
    health,           \* the '/health' request going through the client's custom fetch
    execution         \* the invocation of executeWithRetry

supabaseVars == <<connectionStatus, checks, health, execution>>

managerVars == <<requestCache, pendingRequests, endpoints, lastCleanup, timers, calls, batch>>

vars ==
    <<now, requestCache, pendingRequests, endpoints, lastCleanup, timers, calls, batch,
      connectionStatus, checks, health, execution>>

(***************************************************************************)
(* Program constants                                                       *)
(***************************************************************************)
DEFAULT_CACHE_TTL == 300000
HEALTH_CHECK_TTL == 300000
RESOURCES_TTL == 600000
BurstWindow == 1000
BurstLimit == 10
WarningInterval == 5000
ThrottleDuration == 10000
CleanupInterval == 60000
ThrottlePause == 2000
DefaultRetryCount == 2
DefaultRetryDelay == 1000
StatusWindow == 300000      \* 5 * 60 * 1000, supabase.js
PollInterval == 100         \* supabase.js

(***************************************************************************)
(* Bounds of the model                                                     *)
(***************************************************************************)
StartTime == 6000       \* Date.now() when the module is loaded: epoch time, far more
                        \* than WarningInterval after the initial lastWarning of 0
MaxCalls == 3           \* tracked calls to one endpoint, where bursts are not the subject
MaxScenarioCalls == 4   \* tracked calls of the end-to-end scenario
MaxBurst == 12          \* tracked calls to one endpoint, where bursts are the subject
MaxOther == 1           \* tracked calls to the other endpoint, where bursts are the subject
MaxBatchCalls == 2      \* tracked calls to one endpoint, made by batches
MaxChecks == 2          \* calls of checkSupabaseConnection made from one slot
MaxRemark == 22         \* tracked calls to one endpoint, where two bursts are the subject

\* the invocations of optimizedRequest that are alive at once
Slots == {1, 2}

(***************************************************************************)
(* Small helpers                                                           *)
(***************************************************************************)
Includes(endpoint, marker) == \E i \in 1..Len(endpoint) : endpoint[i] = marker

MapDelete(m, k) == [x \in (DOMAIN m) \ {k} |-> m[x]]

MapSet(m, k, v) == [x \in (DOMAIN m) \cup {k} |-> IF x = k THEN v ELSE m[x]]

(***************************************************************************)
(* requestTracker                                                          *)
(***************************************************************************)
NewEndpointRecord == [timestamps |-> <<>>, isThrottled |-> FALSE, lastWarning |-> 0]

\* the record of an endpoint; one that was never tracked reads as the record
\* that track would create for it
EndpointRecord(eps, endpoint) ==
    IF endpoint \in DOMAIN eps THEN eps[endpoint] ELSE NewEndpointRecord

isThrottled(eps, endpoint) ==
    IF endpoint \in DOMAIN eps THEN eps[endpoint].isThrottled ELSE FALSE

cleanup_Inclusive(eps, t) ==
    [e \in DOMAIN eps |->
        [eps[e] EXCEPT !.timestamps =
            SelectSeq(eps[e].timestamps, LAMBDA time : t - time <= CleanupInterval)]]

cleanup(eps, t) ==
    [e \in DOMAIN eps |->
        [eps[e] EXCEPT !.timestamps =
            SelectSeq(eps[e].timestamps, LAMBDA time : t - time < CleanupInterval)]]

CleanupDue(lc, t) == t - lc > CleanupInterval

recentRequests(stamps, t) == SelectSeq(stamps, LAMBDA time : t - time < BurstWindow)

Excessive_AtLimit(rec, t) ==
    /\ Len(recentRequests(rec.timestamps, t)) >= BurstLimit
    /\ t - rec.lastWarning > WarningInterval

Excessive(rec, t) ==
    /\ Len(recentRequests(rec.timestamps, t)) > BurstLimit
    /\ t - rec.lastWarning > WarningInterval

\* requestTracker.track(endpoint) at time t, in three parts: whether this call
\* marks the endpoint throttled, the endpoints table it leaves, and the value
\* of lastCleanup it leaves
TrackedRecord(eps, lc, endpoint, t) ==
    LET cleaned == IF CleanupDue(lc, t) THEN cleanup(eps, t) ELSE eps
        rec == EndpointRecord(cleaned, endpoint)
    IN [rec EXCEPT !.timestamps = Append(rec.timestamps, t)]

TrackMarks(eps, lc, endpoint, t) == Excessive(TrackedRecord(eps, lc, endpoint, t), t)

TrackEndpoints(eps, lc, endpoint, t) ==
    LET cleaned == IF CleanupDue(lc, t) THEN cleanup(eps, t) ELSE eps
        rec == TrackedRecord(eps, lc, endpoint, t)
    IN MapSet(cleaned, endpoint,
              IF Excessive(rec, t)
              THEN [rec EXCEPT !.isThrottled = TRUE, !.lastWarning = t]
              ELSE rec)

TrackLastCleanup(lc, t) == IF CleanupDue(lc, t) THEN t ELSE lc

TrackTimers_Late(tm, eps, lc, endpoint, t) ==
    IF TrackMarks(eps, lc, endpoint, t)
    THEN tm \cup {[endpoint |-> endpoint, at |-> t + 2 * ThrottleDuration]}
    ELSE tm

TrackTimers(tm, eps, lc, endpoint, t) ==
    IF TrackMarks(eps, lc, endpoint, t)
    THEN tm \cup {[endpoint |-> endpoint, at |-> t + ThrottleDuration]}
    ELSE tm

(***************************************************************************)
(* optimizedRequest: options, effective TTL, cache key                     *)
(***************************************************************************)
\* an option the caller may leave out is <<>> when left out and <<v>> when given
Default(opt, d) == IF opt = <<>> THEN d ELSE opt[1]

EffectiveTTL_CallerFirst(endpoint, cacheTTL) ==
    IF Includes(endpoint, "health") THEN HEALTH_CHECK_TTL
    ELSE IF cacheTTL # DEFAULT_CACHE_TTL THEN cacheTTL
    ELSE IF Includes(endpoint, "resources") THEN RESOURCES_TTL
    ELSE DEFAULT_CACHE_TTL

EffectiveTTL(endpoint, cacheTTL) ==
    IF Includes(endpoint, "health") THEN HEALTH_CHECK_TTL
    ELSE IF Includes(endpoint, "resources") THEN RESOURCES_TTL
    ELSE IF cacheTTL # 0 THEN cacheTTL
    ELSE DEFAULT_CACHE_TTL

\* null where an object is expected: no sequence of pairs
Null == <<<<"null">>>>

\* JSON.stringify of an object, which is the sequence of its properties in
\* insertion order, each a pair <<name, value>>: the properties are written in
\* that order, and those whose value is undefined are left out; the text of
\* null is null
stringifyObject(obj) ==
    IF obj = Null THEN Null
    ELSE SelectSeq(obj, LAMBDA property : property[2] # "undefined")

\* JSON.stringify({method, params, body}); body is <<>> when it is null and
\* <<obj>> when it is the object obj
stringify(method, params, body) ==
    <<method, stringifyObject(params),
      IF body = <<>> THEN <<>> ELSE <<stringifyObject(body[1])>>>>

generateCacheKey(endpoint, method, params, body) ==
    <<endpoint, stringify(method, params, body)>>

NoResult == [kind |-> "none", val |-> "none"]
Resolved(data) == [kind |-> "ok", val |-> data]
Rejected(error) == [kind |-> "err", val |-> error]

IdleCall ==
    [pc |-> "idle", endpoint |-> <<>>, method |-> "GET", params |-> <<>>, body |-> <<>>,
     cacheTTL |-> <<>>, bypassCache |-> FALSE,
     retryCount |-> DefaultRetryCount, retryDelay |-> DefaultRetryDelay,
     priority |-> "normal", calledAt |-> 0, attempt |-> 0, wakeAt |-> 0, failedAt |-> 0,
     joinTo |-> 0, fetches |-> 0, url |-> <<>>, result |-> NoResult]

\* the destructuring of options with its defaults; cacheTTL is kept as the
\* caller gave it and takes its default where it is read (TTLOf)
NewCall_PriorityDropped(o) ==
    [IdleCall EXCEPT !.endpoint = o.endpoint, !.method = Default(o.method, "GET"),
                     !.params = o.params, !.body = o.body,
                     !.cacheTTL = o.cacheTTL,
                     !.bypassCache = o.bypassCache,
                     !.retryCount = Default(o.retryCount, DefaultRetryCount),
                     !.retryDelay = Default(o.retryDelay, DefaultRetryDelay),
                     !.priority = "normal"]

NewCall(o) ==
    [IdleCall EXCEPT !.endpoint = o.endpoint, !.method = Default(o.method, "GET"),
                     !.params = o.params, !.body = o.body,
                     !.cacheTTL = o.cacheTTL,
                     !.bypassCache = o.bypassCache,
                     !.retryCount = Default(o.retryCount, DefaultRetryCount),
                     !.retryDelay = Default(o.retryDelay, DefaultRetryDelay),
                     !.priority = Default(o.priority, "normal")]

KeyOf(r) == generateCacheKey(r.endpoint, r.method, r.params, r.body)

\* makeRequest throws before it calls fetch: Object.entries(params) is a
\* TypeError when params is null
ThrowsSynchronously(r) == r.params = Null

\* String.prototype.startsWith on strings that are sequences of pieces
startsWith(str, prefix) ==
    Len(prefix) <= Len(str) /\ SubSeq(str, 1, Len(prefix)) = prefix

\* the URLSearchParams of makeRequest: the properties of params, in insertion
\* order, whose value is neither undefined nor null
QueryParams(params) ==
    SelectSeq(params, LAMBDA property : property[2] \notin {"undefined", "null"})

\* URLSearchParams.prototype.toString: name=value pairs joined by '&'
RECURSIVE toString(_)
toString(queryParams) ==
    IF queryParams = <<>> THEN <<>>
    ELSE <<queryParams[1][1], "=", queryParams[1][2]>>
         \o (IF Len(queryParams) > 1 THEN <<"&">> ELSE <<>>)
         \o toString(Tail(queryParams))

\* the url that makeRequest hands to fetch
BuildUrl(endpoint, params) ==
    LET queryString == toString(QueryParams(params))
    IN IF startsWith(endpoint, <<"http", ":">>) \/ startsWith(endpoint, <<"https", ":">>)
       THEN IF queryString # <<>>
            THEN endpoint \o <<IF Includes(endpoint, "?") THEN "&" ELSE "?">> \o queryString
            ELSE endpoint
       ELSE IF queryString # <<>>
            THEN endpoint \o <<"?">> \o queryString
            ELSE endpoint

TTLOf_DefaultOnly(r) == EffectiveTTL(r.endpoint, DEFAULT_CACHE_TTL)

TTLOf(r) == EffectiveTTL(r.endpoint, Default(r.cacheTTL, DEFAULT_CACHE_TTL))

(***************************************************************************)
(* The transport (fetch) and what one attempt makes of its answer          *)
(***************************************************************************)
NetworkFailure == [net |-> TRUE, status |-> 0, decodable |-> FALSE, data |-> "none"]
HttpResponse(status, decodable, data) ==
    [net |-> FALSE, status |-> status, decodable |-> decodable, data |-> data]

ResponseOk(resp) == resp.status >= 200 /\ resp.status <= 299

HttpErrorMessage(status) == IF status >= 500 THEN "Request failed with status 5xx"
                            ELSE "Request failed with status 4xx"

\* the body of the try block after fetch: the value returned or the error thrown
AttemptOutcome_Undecoded(resp) ==
    IF resp.net THEN Rejected("NetworkError")
    ELSE IF ~ResponseOk(resp) THEN Rejected(HttpErrorMessage(resp.status))
    ELSE Resolved(resp.data)

AttemptOutcome(resp) ==
    IF resp.net THEN Rejected("NetworkError")
    ELSE IF ~ResponseOk(resp) THEN Rejected(HttpErrorMessage(resp.status))
    ELSE IF ~resp.decodable THEN Rejected("SyntaxError")
    ELSE Resolved(resp.data)

\* the catch block of makeRequest(retryAttempt): retry or rethrow, and the delay
\* before the retry
ShouldRetry_OneMore(retryAttempt, retryCount) == retryAttempt <= retryCount

ShouldRetry(retryAttempt, retryCount) == retryAttempt < retryCount

BackoffDelay(retryDelay, retryAttempt) == retryDelay * (retryAttempt + 1)

\* the finally block of makeRequest(retryAttempt)
CleanupPending(pending, key, retryAttempt, retryCount) ==
    IF retryAttempt = retryCount \/ retryAttempt = 0
    THEN MapDelete(pending, key)
    ELSE pending

\* the promise of slot p settles with res: so do the calls that were handed it
Settle(cs, p, res) ==
    [c \in DOMAIN cs |->
        IF c = p \/ (cs[c].pc = "joined" /\ cs[c].joinTo = p)
        THEN [cs[c] EXCEPT !.pc = "done", !.result = res]
        ELSE cs[c]]

Deadlines ==
    {tm.at : tm \in timers}
    \cup {calls[c].wakeAt : c \in {x \in Slots : calls[x].pc \in {"paused", "retryWait"}}}
    \cup {checks[p].wakeAt : p \in {x \in DOMAIN checks : checks[x].pc = "waiting"}}
    \cup {health.wakeAt : x \in {y \in {1} : health.pc = "pausing"}}
    \cup {execution.wakeAt : x \in {y \in {1} : execution.pc = "waiting"}}

(***************************************************************************)
(* optimizedRequest from "Track this request" to its return: the call in   *)
(* slot c, whose record is r, is tracked, then answered from the fresh     *)
(* cache, or handed the pending promise of its key, or starts makeRequest  *)
(***************************************************************************)
CacheLookup_EvenBypass(cache, r) == r.method = "GET" /\ KeyOf(r) \in DOMAIN cache

CacheLookup(cache, r) == ~r.bypassCache /\ r.method = "GET" /\ KeyOf(r) \in DOMAIN cache

CacheFresh_Inclusive(entry, t, ttl) == t - entry.timestamp <= ttl

CacheFresh(entry, t, ttl) == t - entry.timestamp < ttl

\* the state of the request manager, as one value
State ==
    [requestCache |-> requestCache, pendingRequests |-> pendingRequests,
     endpoints |-> endpoints, lastCleanup |-> lastCleanup, timers |-> timers, calls |-> calls]

\* the state that Proceed leaves when it starts in state S at time t
ProceedEffect(S, c, r, t) ==
    LET key == KeyOf(r)
        hit == CacheLookup(S.requestCache, r) /\ CacheFresh(S.requestCache[key], t, TTLOf(r))
        cache1 == IF CacheLookup(S.requestCache, r) /\ ~hit
                  THEN MapDelete(S.requestCache, key) ELSE S.requestCache
        tracked == [S EXCEPT !.endpoints = TrackEndpoints(S.endpoints, S.lastCleanup, r.endpoint, t),
                             !.lastCleanup = TrackLastCleanup(S.lastCleanup, t),
                             !.timers = TrackTimers(S.timers, S.endpoints, S.lastCleanup,
                                                    r.endpoint, t)]
    IN IF hit
       THEN [tracked EXCEPT !.calls[c] =
                [r EXCEPT !.pc = "done", !.result = Resolved(S.requestCache[key].data)]]
       ELSE IF key \in DOMAIN S.pendingRequests
       THEN [tracked EXCEPT
                !.requestCache = cache1,
                !.calls[c] =
                    IF S.calls[S.pendingRequests[key]].pc = "done"
                    THEN [r EXCEPT !.pc = "done",
                                   !.result = S.calls[S.pendingRequests[key]].result]
                    ELSE [r EXCEPT !.pc = "joined", !.joinTo = S.pendingRequests[key]]]
       ELSE IF ThrowsSynchronously(r)
       THEN [tracked EXCEPT
                !.requestCache = cache1,
                !.calls[c] =
                    IF ShouldRetry(0, r.retryCount)
                    THEN [r EXCEPT !.pc = "retryWait", !.attempt = 0, !.failedAt = t,
                                   !.wakeAt = t + BackoffDelay(r.retryDelay, 0)]
                    ELSE [r EXCEPT !.pc = "done", !.attempt = 0,
                                   !.result = Rejected("TypeError")],
                !.pendingRequests =
                    MapSet(IF ShouldRetry(0, r.retryCount) THEN S.pendingRequests
                           ELSE CleanupPending(S.pendingRequests, key, 0, r.retryCount),
                           key, c)]
       ELSE [tracked EXCEPT
                !.requestCache = cache1,
                !.calls[c] = [r EXCEPT !.pc = "fetching", !.attempt = 0, !.fetches = 1,
                                       !.url = BuildUrl(r.endpoint, r.params)],
                !.pendingRequests = MapSet(S.pendingRequests, key, c)]

\* the request manager goes to state N
Becomes(N) ==
    /\ requestCache' = N.requestCache
    /\ pendingRequests' = N.pendingRequests
    /\ endpoints' = N.endpoints
    /\ lastCleanup' = N.lastCleanup
    /\ timers' = N.timers
    /\ calls' = N.calls

\* optimizedRequest from "Track this request" to its return, for the call in
\* slot c, whose record is r
Proceed(c, r) == Becomes(ProceedEffect(State, c, r, now))

\* the throttle check: which calls it concerns, and which of them it rejects
ThrottledPath_LowOnly(eps, endpoint, priority) == isThrottled(eps, endpoint) /\ priority = "low"

ThrottledPath(eps, endpoint, priority) == isThrottled(eps, endpoint) /\ priority # "high"

RejectThrottled_NotHigh(priority) == priority # "high"

RejectThrottled(priority) == priority = "low"

\* the promise of slot c is still referred to
PromiseInUse(S, b, c) ==
    \/ \E k \in DOMAIN S.pendingRequests : S.pendingRequests[k] = c
    \/ \E d \in DOMAIN S.calls : S.calls[d].pc = "joined" /\ S.calls[d].joinTo = c
    \/ b.pc = "pending" /\ \E i \in 1..Len(b.slots) : b.slots[i] = c

\* slot c can take the call optimizedRequest(o.endpoint, o), whose endpoint
\* has had fewer than maxTrack tracked calls
CanCall(S, b, c, o, maxTrack) ==
    /\ S.calls[c].pc \in {"idle", "done"}
    /\ ~PromiseInUse(S, b, c)
    /\ Len(EndpointRecord(S.endpoints, o.endpoint).timestamps) < maxTrack

\* the state that optimizedRequest(o.endpoint, o), called in slot c at time t
\* in state S, leaves at its first suspension point
CallEffect(S, c, o, t) ==
    LET r == [NewCall(o) EXCEPT !.calledAt = t]
        key == KeyOf(r)
    IN IF ThrottledPath(S.endpoints, r.endpoint, r.priority)
       THEN IF key \in DOMAIN S.requestCache
            THEN [S EXCEPT !.calls[c] =
                    [r EXCEPT !.pc = "done", !.result = Resolved(S.requestCache[key].data)]]
            ELSE IF RejectThrottled(r.priority)
            THEN [S EXCEPT !.calls[c] =
                    [r EXCEPT !.pc = "done", !.result = Rejected("Request throttled")]]
            ELSE [S EXCEPT !.calls[c] =
                    [r EXCEPT !.pc = "paused", !.wakeAt = t + ThrottlePause]]
       ELSE ProceedEffect(S, c, r, t)

\* the values that Promise.all resolves with: those of the promises of the
\* calls in b.slots, in the order of the slots
BatchValues_OwnFetchOnly(b, cs) ==
    LET fetched == SelectSeq(b.slots, LAMBDA c : cs[c].fetches > 0)
    IN [i \in 1..Len(fetched) |-> cs[fetched[i]].result.val]

BatchValues(b, cs) == [i \in 1..Len(b.slots) |-> cs[b.slots[i]].result.val]

\* Promise.all over the promises of the calls in b.slots, after the calls
\* have become cs: it rejects with the error of a rejected promise as soon as
\* there is one, and resolves once all have resolved
PromiseAll_WaitsForAll(b, cs) ==
    LET rejected == {i \in 1..Len(b.slots) :
                        cs[b.slots[i]].pc = "done" /\ cs[b.slots[i]].result.kind = "err"}
        first == CHOOSE i \in rejected : \A j \in rejected : i <= j
    IN IF b.pc # "pending" THEN b
       ELSE IF \E i \in 1..Len(b.slots) : cs[b.slots[i]].pc # "done" THEN b
       ELSE IF rejected # {}
       THEN [b EXCEPT !.pc = "done", !.result = cs[b.slots[first]].result]
       ELSE [b EXCEPT !.pc = "done", !.result = Resolved(BatchValues(b, cs))]

PromiseAll(b, cs) ==
    LET rejected == {i \in 1..Len(b.slots) :
                        cs[b.slots[i]].pc = "done" /\ cs[b.slots[i]].result.kind = "err"}
        first == CHOOSE i \in rejected : \A j \in rejected : i <= j
    IN IF b.pc # "pending" THEN b
       ELSE IF rejected # {}
       THEN [b EXCEPT !.pc = "done", !.result = cs[b.slots[first]].result]
       ELSE IF \A i \in 1..Len(b.slots) : cs[b.slots[i]].pc = "done"
       THEN [b EXCEPT !.pc = "done", !.result = Resolved(BatchValues(b, cs))]
       ELSE b

\* optimizedRequest(endpoint, options) up to its first suspension point; the
\* endpoint has had fewer than maxTrack tracked calls
Call(c, o, maxTrack) ==
    /\ CanCall(State, batch, c, o, maxTrack)
    /\ Becomes(CallEffect(State, c, o, now))
    /\ UNCHANGED <<now, batch, supabaseVars>>

\* the 2 second pause of a throttled call of normal priority is over
Resume_Rechecks(c) ==
    /\ calls[c].pc = "paused"
    /\ now >= calls[c].wakeAt
    /\ IF isThrottled(endpoints, calls[c].endpoint)
       THEN /\ calls' = [calls EXCEPT ![c].wakeAt = now + ThrottlePause]
            /\ UNCHANGED <<requestCache, pendingRequests, endpoints, lastCleanup, timers>>
       ELSE Proceed(c, calls[c])
    /\ batch' = PromiseAll(batch, calls')
    /\ UNCHANGED <<now, supabaseVars>>

Resume(c) ==
    /\ calls[c].pc = "paused"
    /\ now >= calls[c].wakeAt
    /\ Proceed(c, calls[c])
    /\ batch' = PromiseAll(batch, calls')
    /\ UNCHANGED <<now, supabaseVars>>

\* the transport answers the outstanding attempt of the call in slot c
FetchRespond(c, resp) ==
    LET r == calls[c]
        key == KeyOf(r)
        out == AttemptOutcome(resp)
    IN /\ r.pc = "fetching"
       /\ UNCHANGED <<now, endpoints, lastCleanup, timers, supabaseVars>>
       /\ IF out.kind = "ok"
          THEN /\ requestCache' = IF r.method = "GET"
                                  THEN MapSet(requestCache, key,
                                              [data |-> out.val, timestamp |-> now])
                                  ELSE requestCache
               /\ pendingRequests' = CleanupPending(pendingRequests, key, r.attempt, r.retryCount)
               /\ calls' = Settle(calls, c, out)
          ELSE IF ShouldRetry(r.attempt, r.retryCount)
          THEN /\ calls' = [calls EXCEPT ![c] =
                               [r EXCEPT !.pc = "retryWait", !.failedAt = now,
                                         !.wakeAt = now + BackoffDelay(r.retryDelay, r.attempt)]]
               /\ UNCHANGED <<requestCache, pendingRequests>>
          ELSE /\ pendingRequests' = CleanupPending(pendingRequests, key, r.attempt, r.retryCount)
               /\ calls' = Settle(calls, c, out)
               /\ UNCHANGED requestCache
       /\ batch' = PromiseAll(batch, calls')

\* the retry delay is over: makeRequest(retryAttempt + 1) issues its fetch, or
\* throws before it does and then waits again or rethrows, and the finally
\* block of makeRequest(retryAttempt) runs as that call returns
Retry(c) ==
    LET r == calls[c]
    IN /\ r.pc = "retryWait"
       /\ now >= r.wakeAt
       /\ IF ~ThrowsSynchronously(r)
          THEN /\ calls' = [calls EXCEPT ![c] =
                               [r EXCEPT !.pc = "fetching", !.attempt = r.attempt + 1,
                                         !.fetches = r.fetches + 1,
                                         !.url = BuildUrl(r.endpoint, r.params)]]
               /\ pendingRequests' =
                      CleanupPending(pendingRequests, KeyOf(r), r.attempt, r.retryCount)
               /\ UNCHANGED batch
          ELSE IF ShouldRetry(r.attempt + 1, r.retryCount)
          THEN /\ calls' = [calls EXCEPT ![c] =
                               [r EXCEPT !.attempt = r.attempt + 1, !.failedAt = now,
                                         !.wakeAt = now + BackoffDelay(r.retryDelay,
                                                                       r.attempt + 1)]]
               /\ pendingRequests' =
                      CleanupPending(pendingRequests, KeyOf(r), r.attempt, r.retryCount)
               /\ UNCHANGED batch
          ELSE /\ calls' = Settle([calls EXCEPT ![c].attempt = r.attempt + 1], c,
                                  Rejected("TypeError"))
               /\ pendingRequests' =
                      CleanupPending(CleanupPending(pendingRequests, KeyOf(r),
                                                    r.attempt + 1, r.retryCount),
                                     KeyOf(r), r.attempt, r.retryCount)
               /\ batch' = PromiseAll(batch, calls')
       /\ UNCHANGED <<now, requestCache, endpoints, lastCleanup, timers, supabaseVars>>

\* the callback of an un-throttle timer runs
Unthrottle(tm) ==
    /\ tm \in timers
    /\ now >= tm.at
    /\ endpoints' = [endpoints EXCEPT ![tm.endpoint].isThrottled = FALSE]
    /\ timers' = timers \ {tm}
    /\ UNCHANGED <<now, requestCache, pendingRequests, lastCleanup, calls, batch, supabaseVars>>

\* d milliseconds pass; a timer runs when it is due, so time does not pass a deadline
Tick(d, horizon) ==
    /\ now + d <= horizon
    /\ \A t \in Deadlines : now + d <= t
    /\ now' = now + d
    /\ UNCHANGED <<requestCache, pendingRequests, endpoints, lastCleanup, timers, calls, batch,
                   supabaseVars>>

IdleBatch == [pc |-> "idle", slots |-> <<>>, result |-> NoResult]

\* the invocations of checkSupabaseConnection that are alive at once
Checkers == {1, 2}

\* the slots of its invocations: those of two concurrent callers, and that of
\* a caller that comes later
Callers == Checkers \cup {3}

\* isConnected is "null", "true" or "false"
InitialConnectionStatus ==
    [lastChecked |-> 0, isConnected |-> "null", checkInProgress |-> FALSE]

\* an invocation of checkSupabaseConnection: where it is, its argument, the
\* value of its constant now, the next run of its polling interval, what it
\* returned ("none" until it returns), the number of the call in its slot, the
\* backend queries it has issued, the answers it got to them, the check that
\* was in progress when it began to wait, and its constant responseTime
\* a '/health' request handed to the client's custom fetch: where it is, the
\* end of its 100 ms pause, the status of the Response it returned (0 until
\* it returns) and the number of the request
IdleHealth == [pc |-> "idle", wakeAt |-> 0, status |-> 0, calls |-> 0]

\* null, where executeWithRetry expects an error
NullError == [message |-> <<>>, code |-> "null"]

\* an invocation of executeWithRetry: where it is, its arguments, its loop
\* variable attempt, the number of times it has invoked queryFn, its variable
\* lastError, the time of the last failure and the end of the wait that
\* follows it, what it returned or threw, and the number of the invocation
IdleExecution ==
    [pc |-> "idle", maxRetries |-> 0, delay |-> 0, attempt |-> 0, invocations |-> 0,
     lastError |-> NullError, failedAt |-> 0, wakeAt |-> 0, result |-> "none",
     error |-> NullError, calls |-> 0]

IdleCheck ==
    [pc |-> "idle", forceCheck |-> FALSE, now |-> 0, wakeAt |-> 0, result |-> "none",
     calls |-> 0, queries |-> 0, answers |-> <<>>, waitedFor |-> <<0, 0>>,
     responseTime |-> 0]

Init ==
    /\ now = StartTime
    /\ requestCache = <<>>
    /\ pendingRequests = <<>>
    /\ endpoints = <<>>
    /\ lastCleanup = StartTime
    /\ timers = {}
    /\ calls = [c \in Slots |-> IdleCall]
    /\ batch = IdleBatch
    /\ connectionStatus = InitialConnectionStatus
    /\ checks = [p \in Callers |-> IdleCheck]
    /\ health = IdleHealth
    /\ execution = IdleExecution

(***************************************************************************)
(* Inputs                                                                  *)
(***************************************************************************)
Items == <<"items">>
Resources == <<"resources">>
Health == <<"auth", "health">>
ResourcesHealth == <<"resources", "health">>

Options(endpoint, method, params, cacheTTL, bypassCache, retryCount, priority) ==
    [endpoint |-> endpoint, method |-> method, params |-> params, body |-> <<>>,
     cacheTTL |-> cacheTTL, bypassCache |-> bypassCache, retryCount |-> retryCount,
     retryDelay |-> <<>>, priority |-> priority]

Responses ==
    {NetworkFailure, HttpResponse(404, TRUE, "none"), HttpResponse(500, TRUE, "none"),
     HttpResponse(200, FALSE, "none"), HttpResponse(200, TRUE, "d1")}

(***************************************************************************)
(* Spec: concurrent calls, of every method, with and without bypassCache   *)
(***************************************************************************)
DedupHorizon == StartTime + 1000

DedupOptions ==
    {Options(Items, m, <<>>, <<>>, b, rc, <<>>) :
        m \in {<<>>, <<"POST">>}, b \in BOOLEAN, rc \in {<<0>>, <<1>>}}

DedupResponses ==
    {NetworkFailure, HttpResponse(200, TRUE, "d1"), HttpResponse(200, TRUE, "d2")}

Next ==
    \/ \E c \in Slots, o \in DedupOptions : Call(c, o, MaxCalls)
    \/ \E c \in Slots, resp \in DedupResponses : FetchRespond(c, resp)
    \/ \E c \in Slots : Retry(c)
    \/ Tick(1000, DedupHorizon)

Spec == Init /\ [][Next]_vars

(***************************************************************************)
(* SpecRetry: GET calls for one key with retryCount 0, 1 and 2, against a  *)
(* transport that fails in every way                                       *)
(***************************************************************************)
RetryHorizon == StartTime + 3000

RetryOptions ==
    {Options(Items, <<>>, <<>>, <<>>, FALSE, rc, <<>>) : rc \in {<<>>, <<0>>, <<1>>}}

NextRetry ==
    \/ \E c \in Slots, o \in RetryOptions : Call(c, o, MaxCalls)
    \/ \E c \in Slots, resp \in Responses : FetchRespond(c, resp)
    \/ \E c \in Slots : Retry(c)
    \/ Tick(1000, RetryHorizon)

SpecRetry == Init /\ [][NextRetry]_vars

(***************************************************************************)
(* SpecTracker: requestTracker alone, tracking calls to two endpoints      *)
(***************************************************************************)
\* requestTracker.track(endpoint), for an endpoint that has had fewer than
\* maxTrack tracked calls
Track(endpoint, maxTrack) ==
    /\ Len(EndpointRecord(endpoints, endpoint).timestamps) < maxTrack
    /\ endpoints' = TrackEndpoints(endpoints, lastCleanup, endpoint, now)
    /\ lastCleanup' = TrackLastCleanup(lastCleanup, now)
    /\ timers' = TrackTimers(timers, endpoints, lastCleanup, endpoint, now)
    /\ UNCHANGED <<now, requestCache, pendingRequests, calls, batch, supabaseVars>>

BurstHorizon == StartTime + 2 * BurstWindow
ThrottleHorizon == BurstHorizon + ThrottleDuration

NextTracker ==
    \/ Track(Items, MaxBurst)
    \/ Track(Resources, MaxOther)
    \/ \E tm \in timers : Unthrottle(tm)
    \/ Tick(BurstWindow, BurstHorizon)
    \/ Tick(ThrottleDuration, ThrottleHorizon)

SpecTracker == Init /\ [][NextTracker]_vars

(***************************************************************************)
(* SpecThrottle: bursts of sequential GET calls of every priority to one   *)
(* endpoint, for two keys, with a caller-supplied TTL of one second, and   *)
(* for one of the keys also with bypassCache                               *)
(***************************************************************************)
ThrottleOptions ==
    {Options(Items, <<>>, <<>>, <<1000>>, b, <<0>>, pr) :
        b \in BOOLEAN, pr \in {<<>>, <<"low">>, <<"high">>}}
    \cup {Options(Items, <<>>, <<<<"page", "2">>>>, <<1000>>, FALSE, <<0>>, pr) :
        pr \in {<<>>, <<"low">>, <<"high">>}}

PauseHorizon == StartTime + ThrottlePause

ThrottleResponses == {NetworkFailure, HttpResponse(200, TRUE, "d1")}

NextThrottle ==
    \/ \E o \in ThrottleOptions : Call(1, o, MaxBurst)
    \/ Resume(1)
    \/ \E resp \in ThrottleResponses : FetchRespond(1, resp)
    \/ \E tm \in timers : Unthrottle(tm)
    \/ Tick(ThrottlePause, PauseHorizon)
    \/ Tick(ThrottleDuration, PauseHorizon + ThrottleDuration)

SpecThrottle == Init /\ [][NextThrottle]_vars

(***************************************************************************)
(* SpecCache: concurrent GET calls for one key of '/items' with cacheTTL   *)
(* 1000, with and without bypassCache, repeated around the expiry          *)
(***************************************************************************)
ScenarioHorizon == StartTime + 1100

CacheOptions ==
    {Options(Items, <<>>, <<>>, ttl, b, <<0>>, <<>>) : ttl \in {<<>>, <<1000>>}, b \in BOOLEAN}

CacheResponses ==
    {NetworkFailure, HttpResponse(200, TRUE, "d1"), HttpResponse(200, TRUE, "d2")}

NextCache ==
    \/ \E c \in Slots, o \in CacheOptions : Call(c, o, MaxCalls)
    \/ \E c \in Slots, resp \in CacheResponses : FetchRespond(c, resp)
    \/ Tick(500, ScenarioHorizon)
    \/ Tick(600, ScenarioHorizon)

SpecCache == Init /\ [][NextCache]_vars

(***************************************************************************)
(* SpecScenario: sequential calls request('/resources', {method: 'GET',    *)
(* cacheTTL: 1000}), repeated up to 10 minutes after the first             *)
(***************************************************************************)
ExpiryHorizon == StartTime + RESOURCES_TTL + 1100

ScenarioOptions == Options(Resources, <<"GET">>, <<>>, <<1000>>, FALSE, <<0>>, <<>>)

NextScenario ==
    \/ Call(1, ScenarioOptions, MaxScenarioCalls)
    \/ \E resp \in CacheResponses : FetchRespond(1, resp)
    \/ Tick(500, ScenarioHorizon)
    \/ Tick(600, ScenarioHorizon)
    \/ Tick(RESOURCES_TTL - 1100, ExpiryHorizon)

SpecScenario == Init /\ [][NextScenario]_vars

(***************************************************************************)
(* SpecTTL: sequential GET calls to endpoints of every class, with every   *)
(* kind of cacheTTL option, all made at the same time                      *)
(***************************************************************************)
TTLOptions ==
    {Options(e, <<>>, <<>>, ttl, FALSE, <<0>>, <<>>) :
        e \in {Items, Resources, Health, ResourcesHealth},
        ttl \in {<<>>, <<0>>, <<1000>>}}

NextTTL ==
    \/ \E o \in TTLOptions : Call(1, o, MaxCalls)
    \/ FetchRespond(1, HttpResponse(200, TRUE, "d1"))

SpecTTL == Init /\ [][NextTTL]_vars

(***************************************************************************)
(* clearRequestCache.  The cache key is a string: the text of the endpoint,*)
(* a colon, and the JSON text of {method, params, body}.  KeyString is     *)
(* that string as the sequence of its pieces, the JSON text being one      *)
(* piece.                                                                  *)
(***************************************************************************)
KeyString(key) == key[1] \o <<":", key[2]>>

ClearedKey_AnyLonger(key, endpoint) == startsWith(KeyString(key), endpoint)

ClearedKey(key, endpoint) == startsWith(KeyString(key), endpoint \o <<":">>)

\* clearRequestCache(endpoint): the argument is <<>> when it is left out or
\* null and <<e>> when it is the string e; the empty string is falsy
clearRequestCache(endpoint) ==
    /\ requestCache' =
          IF endpoint # <<>> /\ endpoint[1] # <<>>
          THEN [k \in {x \in DOMAIN requestCache : ~ClearedKey(x, endpoint[1])} |->
                   requestCache[k]]
          ELSE <<>>
    /\ UNCHANGED <<now, pendingRequests, endpoints, lastCleanup, timers, calls, batch,
                   supabaseVars>>

(***************************************************************************)
(* SpecInvalidate: sequential GET calls that fill the cache with entries   *)
(* of '/items', '/resources', '/resources/1' and 'https://api/items', and  *)
(* calls of clearRequestCache with every kind of argument                  *)
(***************************************************************************)
ResourceOne == <<"resources", "1">>
AbsoluteItems == <<"https", ":", "api", "items">>

InvalidateOptions ==
    {Options(e, <<>>, <<>>, <<>>, FALSE, <<0>>, <<>>) :
        e \in {Items, Resources, ResourceOne, AbsoluteItems}}
    \cup {Options(Resources, <<>>, <<<<"page", "2">>>>, <<>>, FALSE, <<0>>, <<>>)}

ClearArguments ==
    {<<>>, <<<<>>>>, <<Items>>, <<Resources>>, <<ResourceOne>>, <<<<"https">>>>}

NextInvalidate ==
    \/ \E o \in InvalidateOptions : Call(1, o, MaxOther)
    \/ FetchRespond(1, HttpResponse(200, TRUE, "d1"))
    \/ \E endpoint \in ClearArguments : clearRequestCache(endpoint)

SpecInvalidate == Init /\ [][NextInvalidate]_vars

(***************************************************************************)
(* SpecKeys: concurrent calls to one endpoint whose params and body        *)
(* objects have the same properties, inserted in either order, or differ   *)
(***************************************************************************)
KeyObjects ==
    {<<>>, <<<<"a", "1">>>>, <<<<"a", "1">>, <<"b", "2">>>>, <<<<"b", "2">>, <<"a", "1">>>>,
     <<<<"a", "1">>, <<"c", "undefined">>>>}

KeysOptions ==
    {Options(Items, <<>>, p, <<>>, FALSE, <<0>>, <<>>) : p \in KeyObjects}
    \cup {[Options(Items, <<"POST">>, <<>>, <<>>, FALSE, <<0>>, <<>>) EXCEPT !.body = <<b>>] :
             b \in KeyObjects \ {<<>>}}

NextKeys ==
    \/ \E c \in Slots, o \in KeysOptions : Call(c, o, MaxCalls)
    \/ \E c \in Slots : FetchRespond(c, HttpResponse(200, TRUE, "d1"))

SpecKeys == Init /\ [][NextKeys]_vars

(***************************************************************************)
(* batchRequests: requests.map calls optimizedRequest for the requests in  *)
(* turn, each running to its first suspension point, and Promise.all       *)
(* gathers their promises.  The i-th request is the call in slot i.        *)
(***************************************************************************)
RECURSIVE BatchEffect(_, _, _, _)
BatchEffect(S, requests, i, t) ==
    IF i > Len(requests) THEN S
    ELSE BatchEffect(CallEffect(S, i, requests[i], t), requests, i + 1, t)

batchRequests(requests, maxTrack) ==
    /\ batch.pc \in {"idle", "done"}
    /\ \A i \in 1..Len(requests) :
          CanCall(State, batch, i, requests[i], maxTrack + 1 - Len(requests))
    /\ Becomes(BatchEffect(State, requests, 1, now))
    /\ batch' = PromiseAll([pc |-> "pending", slots |-> [i \in 1..Len(requests) |-> i],
                            result |-> NoResult],
                           calls')
    /\ UNCHANGED <<now, supabaseVars>>

(***************************************************************************)
(* SpecBatch: batches of up to two requests, with equal or different keys, *)
(* whose transport calls are answered in either order                      *)
(***************************************************************************)
BatchOptions ==
    {Options(Items, <<>>, <<>>, <<>>, FALSE, <<0>>, <<>>),
     Options(Resources, <<>>, <<>>, <<>>, FALSE, <<0>>, <<>>),
     Options(Items, <<"POST">>, <<>>, <<>>, FALSE, <<0>>, <<>>)}

BatchInputs ==
    {<<>>} \cup {<<o>> : o \in BatchOptions}
           \cup {<<o1, o2>> : o1 \in BatchOptions, o2 \in BatchOptions}

BatchHorizon == StartTime + 1000

NextBatch ==
    \/ \E requests \in BatchInputs : batchRequests(requests, MaxBatchCalls)
    \/ \E c \in Slots, resp \in CacheResponses : FetchRespond(c, resp)
    \/ Tick(1000, BatchHorizon)

SpecBatch == Init /\ [][NextBatch]_vars

(***************************************************************************)
(* checkSupabaseConnection                                                 *)
(***************************************************************************)
\* the check that is running: its slot and the number of its call
Probing(chs) == {p \in DOMAIN chs : chs[p].pc \in {"resources", "dummy", "auth"}}

RunningCheck(chs) ==
    IF Probing(chs) = {} THEN <<0, 0>>
    ELSE LET p == CHOOSE x \in Probing(chs) : TRUE IN <<p, chs[p].calls>>

\* the test of line 49
StatusCached_Inclusive(status, forceCheck, t) ==
    /\ ~forceCheck
    /\ t - status.lastChecked <= StatusWindow
    /\ status.isConnected # "null"

StatusCached(status, forceCheck, t) ==
    /\ ~forceCheck
    /\ t - status.lastChecked < StatusWindow
    /\ status.isConnected # "null"

\* the test of line 34
MustWait_UnlessForced(status, forceCheck) == status.checkInProgress /\ ~forceCheck

MustWait(status, forceCheck) == status.checkInProgress

\* checkSupabaseConnection(forceCheck) up to its first suspension point, or to
\* its return
checkSupabaseConnection(p, forceCheck, maxChecks) ==
    LET r == [IdleCheck EXCEPT !.forceCheck = forceCheck, !.calls = checks[p].calls + 1]
    IN /\ checks[p].pc \in {"idle", "done"}
       /\ checks[p].calls < maxChecks
       /\ IF MustWait(connectionStatus, forceCheck)
          THEN /\ checks' = [checks EXCEPT ![p] =
                     [r EXCEPT !.pc = "waiting", !.wakeAt = now + PollInterval,
                               !.waitedFor = RunningCheck(checks)]]
               /\ UNCHANGED connectionStatus
          ELSE IF StatusCached(connectionStatus, forceCheck, now)
          THEN /\ checks' = [checks EXCEPT ![p] =
                     [r EXCEPT !.pc = "done", !.now = now,
                               !.result = connectionStatus.isConnected]]
               /\ UNCHANGED connectionStatus
          ELSE /\ checks' = [checks EXCEPT ![p] =
                     [r EXCEPT !.pc = "resources", !.now = now, !.queries = 1]]
               /\ connectionStatus' = [connectionStatus EXCEPT !.checkInProgress = TRUE]
       /\ UNCHANGED <<now, managerVars, health, execution>>

\* the callback of the polling interval of a waiting call runs
Poll(p) ==
    /\ checks[p].pc = "waiting"
    /\ now >= checks[p].wakeAt
    /\ checks' = [checks EXCEPT ![p] =
          IF ~connectionStatus.checkInProgress
          THEN [@ EXCEPT !.pc = "done", !.result = connectionStatus.isConnected]
          ELSE [@ EXCEPT !.wakeAt = @ + PollInterval]]
    /\ UNCHANGED <<now, connectionStatus, managerVars, health, execution>>

\* what the backend makes of a query: it answers without an error, answers
\* with an error of some class, or the query throws
NoError == [kind |-> "ok", code |-> "none"]
BackendError(code) == [kind |-> "error", code |-> code]
Throws == [kind |-> "throws", code |-> "none"]

\* what the probe does with the answer to the query on 'resources', to the
\* fallback query on the dummy table, and with the end of auth.getSession():
\* it records "true" or "false" and returns, or it goes on to the next query
ResourcesOutcome_Strict(answer) ==
    IF answer.kind = "error" /\ answer.code = "42P01" THEN "true"
    ELSE IF answer.kind = "ok" THEN "true"
    ELSE "false"

ResourcesOutcome(answer) ==
    IF answer.kind = "error" /\ answer.code = "42P01" THEN "true"
    ELSE IF answer.kind = "ok" THEN "true"
    ELSE "dummy"

DummyOutcome_MissingIsError(answer) ==
    IF answer.kind = "throws" THEN "false"
    ELSE IF answer.kind = "error" /\ answer.code = "404" THEN "auth"
    ELSE IF answer.kind = "error" THEN "false"
    ELSE "true"

DummyOutcome(answer) ==
    IF answer.kind = "throws" THEN "false"
    ELSE IF answer.kind = "error" /\ answer.code = "42P01" THEN "true"
    ELSE IF answer.kind = "error" /\ answer.code = "404" THEN "auth"
    ELSE IF answer.kind = "error" THEN "false"
    ELSE "true"

AuthOutcome_Accessible(answer) == "true"

AuthOutcome(answer) == IF answer.kind = "throws" THEN "false" ELSE "true"

\* responseTime, which is computed when the query on 'resources' and when
\* the fallback query is answered, and not after auth.getSession()
ResponseTime(r, t) == IF r.pc \in {"resources", "dummy"} THEN t - r.now ELSE r.responseTime

ProbeOutcome(pc, answer) ==
    IF pc = "resources" THEN ResourcesOutcome(answer)
    ELSE IF pc = "dummy" THEN DummyOutcome(answer)
    ELSE AuthOutcome(answer)

\* the backend answers the outstanding query of the check in slot p, and the
\* check runs to its next query or to its return through the finally block
QueryRespond_NoFinally(p, answer) ==
    LET r == checks[p]
        outcome == ProbeOutcome(r.pc, answer)
    IN /\ r.pc \in {"resources", "dummy", "auth"}
       /\ IF outcome \in {"dummy", "auth"}
          THEN /\ checks' = [checks EXCEPT ![p] =
                     [r EXCEPT !.pc = outcome, !.queries = r.queries + 1,
                               !.answers = Append(r.answers, answer),
                               !.responseTime = ResponseTime(r, now)]]
               /\ UNCHANGED connectionStatus
          ELSE /\ checks' = [checks EXCEPT ![p] =
                     [r EXCEPT !.pc = "done", !.result = outcome,
                               !.answers = Append(r.answers, answer),
                               !.responseTime = ResponseTime(r, now)]]
               /\ connectionStatus' =
                     [lastChecked |-> r.now, isConnected |-> outcome,
                      checkInProgress |-> answer.kind = "throws"]
       /\ UNCHANGED <<now, managerVars, health, execution>>

QueryRespond(p, answer) ==
    LET r == checks[p]
        outcome == ProbeOutcome(r.pc, answer)
    IN /\ r.pc \in {"resources", "dummy", "auth"}
       /\ IF outcome \in {"dummy", "auth"}
          THEN /\ checks' = [checks EXCEPT ![p] =
                     [r EXCEPT !.pc = outcome, !.queries = r.queries + 1,
                               !.answers = Append(r.answers, answer),
                               !.responseTime = ResponseTime(r, now)]]
               /\ UNCHANGED connectionStatus
          ELSE /\ checks' = [checks EXCEPT ![p] =
                     [r EXCEPT !.pc = "done", !.result = outcome,
                               !.answers = Append(r.answers, answer),
                               !.responseTime = ResponseTime(r, now)]]
               /\ connectionStatus' =
                     [lastChecked |-> r.now, isConnected |-> outcome, checkInProgress |-> FALSE]
       /\ UNCHANGED <<now, managerVars, health, execution>>

(***************************************************************************)
(* SpecProbe: two callers of checkSupabaseConnection, forcing or not,      *)
(* against a backend that answers every query with an error, within 200 ms *)
(* and again five minutes later                                            *)
(***************************************************************************)
ProbeAnswers == {BackendError("42P01"), BackendError("other")}

PollHorizon == StartTime + 2 * PollInterval

NextProbe ==
    \/ \E p \in Checkers, forceCheck \in BOOLEAN :
          checkSupabaseConnection(p, forceCheck, MaxChecks)
    \/ \E p \in Checkers : Poll(p)
    \/ \E p \in Checkers, answer \in ProbeAnswers : QueryRespond(p, answer)
    \/ Tick(PollInterval, PollHorizon)
    \/ Tick(StatusWindow - PollInterval, PollHorizon + StatusWindow - PollInterval)

SpecProbe == Init /\ [][NextProbe]_vars

(***************************************************************************)
(* SpecAnswers: one caller of checkSupabaseConnection at a time, against a *)
(* backend that answers every query in every way                           *)
(***************************************************************************)
Answers == {NoError, BackendError("42P01"), BackendError("404"), BackendError("other"), Throws}

NextAnswers ==
    \/ \E forceCheck \in BOOLEAN : checkSupabaseConnection(1, forceCheck, MaxChecks)
    \/ \E answer \in Answers : QueryRespond(1, answer)
    \/ Tick(PollInterval, PollHorizon)

SpecAnswers == Init /\ [][NextAnswers]_vars

(***************************************************************************)
(* SpecHang: calls for one key, made at the start, with retryCount 0 or 1, *)
(* against a transport that may fail and may never answer.  Timers run     *)
(* when they are due and time passes; nothing makes the transport answer.  *)
(***************************************************************************)
HangHorizon == StartTime + DefaultRetryDelay

HangOptions ==
    {Options(Items, <<>>, <<>>, <<>>, b, rc, <<>>) : b \in BOOLEAN, rc \in {<<0>>, <<1>>}}

NextHang ==
    \/ now = StartTime /\ \E c \in Slots, o \in HangOptions : Call(c, o, MaxCalls)
    \/ \E c \in Slots, resp \in CacheResponses : FetchRespond(c, resp)
    \/ \E c \in Slots : Retry(c)
    \/ Tick(DefaultRetryDelay, HangHorizon)

SpecHang ==
    /\ Init /\ [][NextHang]_vars
    /\ \A c \in Slots : WF_vars(Retry(c))
    /\ WF_vars(Tick(DefaultRetryDelay, HangHorizon))

(***************************************************************************)
(* Vocabulary of the properties                                            *)
(***************************************************************************)
\* the call in slot c has a request of its own that has not reached its outcome
InFlight(c) == calls[c].pc \in {"fetching", "retryWait"}

\* the transport has been invoked for the call in slot c and has not answered
Outstanding(c) == calls[c].pc = "fetching"

FreshEntry(r) ==
    /\ KeyOf(r) \in DOMAIN requestCache
    /\ now - requestCache[KeyOf(r)].timestamp < TTLOf(r)

\* an attempt that got this answer has failed
FailedResponse(resp) == resp.net \/ resp.status < 200 \/ resp.status > 299 \/ ~resp.decodable

\* the options a call was made with
Static(r) ==
    <<r.endpoint, r.method, r.params, r.body, r.cacheTTL, r.bypassCache, r.retryCount,
      r.retryDelay, r.priority>>

\* the step is the call optimizedRequest(o.endpoint, o) in slot c
IsCall(c, o, maxTrack) ==
    /\ calls[c].pc \in {"idle", "done"}
    /\ calls'[c].pc # "idle"
    /\ Static(calls'[c]) = Static(NewCall(o))
    /\ Call(c, o, maxTrack)

\* the call in slot c is answered by this step, from the cache entry of its key
AnsweredFromCache(c, key) ==
    /\ calls'[c].pc = "done"
    /\ calls'[c].result = Resolved(requestCache[key].data)
    /\ calls'[c].fetches = 0
    /\ \A d \in Slots \ {c} : calls'[d] = calls[d]

\* by this step the call in slot c invokes the transport, once
InvokesTransport(c) == calls'[c].pc = "fetching" /\ calls'[c].fetches = 1

(***************************************************************************)
(* C1 (checked under SpecCache).  Cache correctness as claimed: a GET call *)
(* without bypassCache to an endpoint that is not throttled, for a key     *)
(* that has a cache entry, returns the entry's value and invokes the       *)
(* transport zero times when the entry was stored less than the effective  *)
(* TTL ago, and invokes the transport again when it was stored longer ago. *)
(***************************************************************************)
C1_Lookup(c, o) ==
    /\ ~o.bypassCache
    /\ NewCall(o).method = "GET"
    /\ ~isThrottled(endpoints, o.endpoint)
    /\ KeyOf(NewCall(o)) \in DOMAIN requestCache
    /\ IsCall(c, o, MaxCalls)

C1_CacheCorrectness ==
    [][\A c \in Slots, o \in CacheOptions :
          C1_Lookup(c, o) =>
              IF now - requestCache[KeyOf(NewCall(o))].timestamp < TTLOf(NewCall(o))
              THEN AnsweredFromCache(c, KeyOf(NewCall(o)))
              ELSE InvokesTransport(c)
      ]_vars

(***************************************************************************)
(* C1 as amended (checked under SpecCache): as above, but a call that      *)
(* finds the entry expired invokes the transport again only when the       *)
(* pending table has no entry for its key; when it has one, the call is    *)
(* handed that request's promise and invokes no transport itself.  In both *)
(* cases the expired entry is removed.                                     *)
(***************************************************************************)
C1_CacheCorrectnessAmended ==
    [][\A c \in Slots, o \in CacheOptions :
          C1_Lookup(c, o) =>
              IF now - requestCache[KeyOf(NewCall(o))].timestamp < TTLOf(NewCall(o))
              THEN AnsweredFromCache(c, KeyOf(NewCall(o))) /\ requestCache' = requestCache
              ELSE /\ KeyOf(NewCall(o)) \notin DOMAIN requestCache'
                   /\ IF KeyOf(NewCall(o)) \in DOMAIN pendingRequests
                      THEN /\ calls'[c].pc = "joined"
                           /\ calls'[c].joinTo = pendingRequests[KeyOf(NewCall(o))]
                           /\ calls'[c].fetches = 0
                      ELSE InvokesTransport(c)
      ]_vars

\* a call answered from an entry that was stored earlier and is younger than
\* the effective TTL, which the caller supplied
C1_Witness ==
    \E c \in Slots :
        /\ calls[c].pc = "done" /\ calls[c].fetches = 0 /\ calls[c].result.kind = "ok"
        /\ KeyOf(calls[c]) \in DOMAIN requestCache
        /\ calls[c].result.val = requestCache[KeyOf(calls[c])].data
        /\ calls[c].calledAt > requestCache[KeyOf(calls[c])].timestamp
        /\ calls[c].calledAt - requestCache[KeyOf(calls[c])].timestamp < TTLOf(calls[c])
        /\ TTLOf(calls[c]) = 1000

(***************************************************************************)
(* C4 (checked under SpecScenario).  The end-to-end scenario as claimed:   *)
(* request('/resources', {method: 'GET', cacheTTL: 1000}) invokes the      *)
(* transport when the cache has no entry, and a successful answer is       *)
(* cached; repeated less than 1000 ms after the store it returns the       *)
(* cached value with no transport invocation; repeated 1100 ms or more     *)
(* after the store it invokes the transport again.                         *)
(***************************************************************************)
ScenarioKey == KeyOf(NewCall(ScenarioOptions))

C4_FirstCall ==
    /\ (IsCall(1, ScenarioOptions, MaxScenarioCalls) /\ ScenarioKey \notin DOMAIN requestCache)
           => InvokesTransport(1)
    /\ \A resp \in CacheResponses :
           (FetchRespond(1, resp) /\ ~FailedResponse(resp))
               => /\ ScenarioKey \in DOMAIN requestCache'
                  /\ requestCache'[ScenarioKey] = [data |-> resp.data, timestamp |-> now]

C4_Repeat(expiry) ==
    (IsCall(1, ScenarioOptions, MaxScenarioCalls) /\ ScenarioKey \in DOMAIN requestCache)
        => /\ now - requestCache[ScenarioKey].timestamp < 1000
                 => AnsweredFromCache(1, ScenarioKey)
           /\ now - requestCache[ScenarioKey].timestamp >= expiry
                 => InvokesTransport(1)

C4_StillCached ==
    (IsCall(1, ScenarioOptions, MaxScenarioCalls) /\ ScenarioKey \in DOMAIN requestCache)
        => (now - requestCache[ScenarioKey].timestamp < 600000
               => AnsweredFromCache(1, ScenarioKey))

ClaimedTTL(endpoint, cacheTTL) ==
    IF \E i \in 1..Len(endpoint) : endpoint[i] = "health" THEN 300000
    ELSE IF \E i \in 1..Len(endpoint) : endpoint[i] = "resources" THEN 600000
    ELSE IF cacheTTL # <<>> THEN cacheTTL[1]
    ELSE 300000

C5_TTLSelection ==
    \A c \in Slots :
        calls[c].pc # "idle" => TTLOf(calls[c]) = ClaimedTTL(calls[c].endpoint, calls[c].cacheTTL)

(***************************************************************************)
(* C2 (checked under Spec).  Deduplication: a call issued while the        *)
(* transport call of another call with the same key is outstanding, and    *)
(* not answered from a fresh cache entry, invokes no transport itself and  *)
(* is handed that call's promise, and every call handed a promise settles  *)
(* together with, and with the same result as, the call that owns it; for  *)
(* every method and every value of bypassCache.                            *)
(***************************************************************************)
C2_Dedup ==
    [][\A c \in Slots : \A d \in Slots \ {c}, o \in DedupOptions :
          /\ (/\ Outstanding(c)
              /\ KeyOf(NewCall(o)) = KeyOf(calls[c])
              /\ ~(~NewCall(o).bypassCache /\ NewCall(o).method = "GET" /\ FreshEntry(NewCall(o)))
              /\ Call(d, o, MaxCalls))
             => (calls'[d].fetches = 0 /\ calls'[d].pc = "joined" /\ calls'[d].joinTo = c)
          /\ (calls[d].pc = "joined" /\ calls[d].joinTo = c /\ calls'[c].pc = "done")
             => (calls'[d].pc = "done" /\ calls'[d].result = calls'[c].result)
      ]_vars

(***************************************************************************)
(* C3 (checked under SpecRetry).  Deduplication window: from the moment a  *)
(* request begins until its terminal outcome, retry delays and retry       *)
(* attempts included, the pending table maps its key to its promise, so no *)
(* second request for that key is in flight at the same time.              *)
(***************************************************************************)
C3_PendingWindow ==
    /\ \A c \in Slots :
          InFlight(c) => /\ KeyOf(calls[c]) \in DOMAIN pendingRequests
                         /\ pendingRequests[KeyOf(calls[c])] = c
    /\ \A c \in Slots : \A d \in Slots \ {c} :
          ~(InFlight(c) /\ InFlight(d) /\ KeyOf(calls[c]) = KeyOf(calls[d]))

(***************************************************************************)
(* C6 (checked under SpecTracker).  Throttle activation: a tracked call    *)
(* marks its endpoint throttled exactly when, counting that call, more     *)
(* than 10 calls to the endpoint were tracked in the last 1000 ms and the  *)
(* endpoint's last warning is more than 5 seconds old; a call that does    *)
(* not mark leaves the throttle flag, the warning time and the timers as   *)
(* they were; and a throttled endpoint has had more than 10 calls in the   *)
(* 1000 ms that ended with its marking.                                    *)
(***************************************************************************)
CallsWithin(stamps, t, window) ==
    Cardinality({i \in 1..Len(stamps) : stamps[i] <= t /\ t - stamps[i] < window})

C6_Step(e, cap) ==
    Track(e, cap) =>
        IF /\ CallsWithin(endpoints'[e].timestamps, now, 1000) > 10
           /\ now - EndpointRecord(endpoints, e).lastWarning > 5000
        THEN /\ endpoints'[e].isThrottled
             /\ endpoints'[e].lastWarning = now
             /\ timers' = timers \cup {[endpoint |-> e, at |-> now + 10000]}
        ELSE /\ endpoints'[e].isThrottled = EndpointRecord(endpoints, e).isThrottled
             /\ endpoints'[e].lastWarning = EndpointRecord(endpoints, e).lastWarning
             /\ timers' = timers

C6_OnlyBursts ==
    \A e \in DOMAIN endpoints :
        endpoints[e].isThrottled =>
            CallsWithin(endpoints[e].timestamps, endpoints[e].lastWarning, 1000) > 10

C6_ThrottleActivation ==
    [][C6_Step(Items, MaxBurst) /\ C6_Step(Resources, MaxOther)]_vars /\ []C6_OnlyBursts

\* the 11th call of a burst, the first 10 of which did not mark, has marked
C6_Witness ==
    /\ Items \in DOMAIN endpoints
    /\ endpoints[Items].isThrottled
    /\ Len(endpoints[Items].timestamps) = 11
    /\ endpoints[Items].lastWarning = endpoints[Items].timestamps[11]
    /\ endpoints[Items].timestamps[1] > StartTime

(***************************************************************************)
(* C9 (checked under SpecTracker).  Throttle auto-clear: a throttled       *)
(* endpoint always has an un-throttle timer that is due at most 10 seconds *)
(* after the endpoint was marked, and that time has not passed; so once    *)
(* the timers due 10 seconds after the marking have run the endpoint is    *)
(* not throttled, with or without further calls.                           *)
(***************************************************************************)
C9_AutoClear ==
    \A e \in DOMAIN endpoints :
        endpoints[e].isThrottled =>
            \E tm \in timers : /\ tm.endpoint = e
                               /\ tm.at <= endpoints[e].lastWarning + 10000
                               /\ now <= tm.at

\* marked at T by the last tracked call, and not throttled at T + 10 s
C9_Witness ==
    /\ Items \in DOMAIN endpoints
    /\ ~endpoints[Items].isThrottled
    /\ endpoints[Items].lastWarning >= StartTime
    /\ endpoints[Items].timestamps[Len(endpoints[Items].timestamps)] = endpoints[Items].lastWarning
    /\ now = endpoints[Items].lastWarning + 10000

(***************************************************************************)
(* C7 (checked under SpecThrottle).  Throttled error: a call is rejected   *)
(* with the throttled error exactly when, as it is made, its endpoint is   *)
(* throttled, its priority is 'low' and the cache has no entry, fresh or   *)
(* expired, for its key; it is then rejected at once, with no transport    *)
(* invocation, no retry, and no change to the pending table.               *)
(***************************************************************************)
ThrottledError == Rejected("Request throttled")

C7_Step ==
    \A o \in ThrottleOptions :
        IsCall(1, o, MaxBurst) =>
            /\ (calls'[1].result = ThrottledError)
                   <=> (/\ o.endpoint \in DOMAIN endpoints
                        /\ endpoints[o.endpoint].isThrottled
                        /\ o.priority = <<"low">>
                        /\ KeyOf(NewCall(o)) \notin DOMAIN requestCache)
            /\ (calls'[1].result = ThrottledError)
                   => (/\ calls'[1].pc = "done"
                       /\ calls'[1].fetches = 0
                       /\ pendingRequests' = pendingRequests
                       /\ requestCache' = requestCache)

C7_OnlyThen ==
    \A c \in Slots :
        (calls'[c].result = ThrottledError /\ calls'[c] # calls[c])
            => \E o \in ThrottleOptions : IsCall(c, o, MaxBurst)

C7_ThrottledError == [][C7_Step /\ C7_OnlyThen]_vars

C7_Witness ==
    /\ calls[1].pc = "done"
    /\ calls[1].result = ThrottledError
    /\ calls[1].priority = "low"
    /\ isThrottled(endpoints, calls[1].endpoint)

(***************************************************************************)
(* C8 (checked under SpecThrottle).  Stale-but-available: a call of        *)
(* priority 'normal' or 'low' to a throttled endpoint whose key has a      *)
(* cache entry, fresh or expired, returns that entry's value at once, with *)
(* no transport invocation, no pause and no change to the cache or to the  *)
(* pending table.                                                          *)
(***************************************************************************)
C8_StaleButAvailable ==
    [][\A o \in ThrottleOptions :
          (/\ o.endpoint \in DOMAIN endpoints
           /\ endpoints[o.endpoint].isThrottled
           /\ o.priority \in {<<>>, <<"low">>}
           /\ KeyOf(NewCall(o)) \in DOMAIN requestCache
           /\ IsCall(1, o, MaxBurst))
          => (/\ calls'[1].pc = "done"
              /\ calls'[1].result = Resolved(requestCache[KeyOf(NewCall(o))].data)
              /\ calls'[1].fetches = 0
              /\ requestCache' = requestCache
              /\ pendingRequests' = pendingRequests)
      ]_vars

\* a call answered with an entry that had expired when the call was made,
\* while its endpoint was throttled
C8_Witness ==
    /\ calls[1].pc = "done"
    /\ calls[1].result.kind = "ok"
    /\ calls[1].fetches = 0
    /\ calls[1].priority \in {"normal", "low"}
    /\ KeyOf(calls[1]) \in DOMAIN requestCache
    /\ calls[1].calledAt - requestCache[KeyOf(calls[1])].timestamp >= TTLOf(calls[1])
    /\ isThrottled(endpoints, calls[1].endpoint)
    /\ calls[1].calledAt >= endpoints[calls[1].endpoint].lastWarning
    /\ now = calls[1].calledAt

(***************************************************************************)
(* C10 (checked under SpecRetry).  Retry policy: a request invokes the     *)
(* transport at most retryCount + 1 times; a successful attempt resolves   *)
(* it with that attempt's data; a failed attempt k < retryCount, whatever  *)
(* the failure, is followed by attempt k + 1 exactly retryDelay * (k + 1)  *)
(* later; the failed attempt number retryCount rejects it with that        *)
(* attempt's error.                                                        *)
(***************************************************************************)
C10_Counts ==
    \A c \in Slots :
        /\ calls[c].fetches <= calls[c].retryCount + 1
        /\ InFlight(c) => calls[c].fetches = calls[c].attempt + 1
        /\ (calls[c].pc = "done" /\ calls[c].fetches > 0 /\ calls[c].result.kind = "err")
              => calls[c].fetches = calls[c].retryCount + 1

C10_Steps ==
    \A c \in Slots, resp \in Responses :
        FetchRespond(c, resp) =>
            IF ~FailedResponse(resp)
            THEN calls'[c].pc = "done" /\ calls'[c].result = Resolved(resp.data)
                 /\ calls'[c].fetches = calls[c].fetches
            ELSE IF calls[c].attempt < calls[c].retryCount
            THEN calls'[c].pc = "retryWait"
                 /\ calls'[c].wakeAt = now + calls[c].retryDelay * (calls[c].attempt + 1)
            ELSE calls'[c].pc = "done" /\ calls'[c].result.kind = "err"
                 /\ calls'[c].result = AttemptOutcome(resp)

C10_Backoff ==
    \A c \in Slots :
        (calls[c].pc = "retryWait" /\ calls'[c].pc = "fetching")
            => /\ now = calls[c].failedAt + calls[c].retryDelay * (calls[c].attempt + 1)
               /\ calls'[c].attempt = calls[c].attempt + 1
               /\ calls'[c].fetches = calls[c].fetches + 1

C10_RetryPolicy == []C10_Counts /\ [][C10_Steps /\ C10_Backoff]_vars

\* a request that failed twice and then succeeded, with retryCount = 2
C10_Witness ==
    \E c \in Slots : /\ calls[c].pc = "done" /\ calls[c].retryCount = 2
                     /\ calls[c].fetches = 3 /\ calls[c].result.kind = "ok"
                     /\ now = StartTime + 3000

(***************************************************************************)
(* C11 (checked under SpecThrottle).  bypassCache forces a live call: a    *)
(* call made with bypassCache = true that has resolved got its value from  *)
(* a transport call, its own or one it was deduplicated onto, and never    *)
(* from the cache, whatever the cache and the throttle flag were.          *)
(***************************************************************************)
\* the call in slot c has settled without a transport call of its own and
\* without having been handed a pending promise
SettledWithoutTransport(c) ==
    calls[c].pc = "done" /\ calls[c].fetches = 0 /\ calls[c].joinTo = 0

C11_BypassLive ==
    \A c \in Slots :
        (calls[c].bypassCache /\ calls[c].result.kind = "ok") => ~SettledWithoutTransport(c)

(***************************************************************************)
(* C12 (checked under SpecInvalidate).  Invalidate scoping as claimed:     *)
(* clearRequestCache(E) with a specific endpoint E removes every cache     *)
(* entry whose key begins with E, those of longer endpoints that start     *)
(* with E included, and leaves every other entry as it was;                *)
(* clearRequestCache() or clearRequestCache(null) empties the cache.       *)
(***************************************************************************)
\* the text of the key of cache entry k begins with the text given
KeyBeginsWith(k, text) ==
    /\ Len(text) <= Len(k[1]) + 2
    /\ \A i \in 1..Len(text) :
          text[i] = IF i <= Len(k[1]) THEN k[1][i]
                    ELSE IF i = Len(k[1]) + 1 THEN ":" ELSE k[2]

\* the step removes from the cache the entries whose key begins with the text
\* given and leaves the others as they were
RemovesKeysBeginningWith(text) ==
    /\ DOMAIN requestCache' = {k \in DOMAIN requestCache : ~KeyBeginsWith(k, text)}
    /\ \A k \in DOMAIN requestCache' : requestCache'[k] = requestCache[k]

C12_InvalidateScoping ==
    [][/\ \A E \in {Items, Resources, ResourceOne, <<"https">>} :
             clearRequestCache(<<E>>) => RemovesKeysBeginningWith(E)
       /\ clearRequestCache(<<>>) => requestCache' = <<>>
      ]_vars

(***************************************************************************)
(* C12 as amended (checked under SpecInvalidate): clearRequestCache(E)     *)
(* removes exactly the entries whose key begins with E followed by a       *)
(* colon: the entries of endpoint E, for every method, params and body,    *)
(* and no entry of a longer endpoint such as '/resources/1' unless that    *)
(* endpoint itself begins with E and a colon.  clearRequestCache() or      *)
(* clearRequestCache(null) empties the cache.                              *)
(***************************************************************************)
C12_InvalidateScopingAmended ==
    [][/\ \A E \in {Items, Resources, ResourceOne, <<"https">>} :
             clearRequestCache(<<E>>) => RemovesKeysBeginningWith(E \o <<":">>)
       /\ clearRequestCache(<<>>) => requestCache' = <<>>
      ]_vars

\* the entry that the last call stored for '/resources' has been removed,
\* and the entry of '/resources/1' is still in the cache
C12_Witness ==
    /\ calls[1].pc = "done" /\ calls[1].fetches = 1 /\ calls[1].result.kind = "ok"
    /\ calls[1].endpoint = Resources
    /\ KeyOf(calls[1]) \notin DOMAIN requestCache
    /\ \E k \in DOMAIN requestCache : k[1] = ResourceOne

(***************************************************************************)
(* C13 (checked under SpecKeys).  Cache-key determinism: two requests get  *)
(* the same cache key exactly when they have the same endpoint and method  *)
(* and their params and body objects are structurally equal, that is have  *)
(* the same properties with the same values, in whatever order they were   *)
(* inserted; so a call made while the transport call of a structurally     *)
(* equal request is outstanding starts no transport call of its own.       *)
(***************************************************************************)
StructurallyEqual(obj1, obj2) ==
    {obj1[i] : i \in 1..Len(obj1)} = {obj2[i] : i \in 1..Len(obj2)}

SameLogicalRequest(r1, r2) ==
    /\ r1.endpoint = r2.endpoint
    /\ r1.method = r2.method
    /\ StructurallyEqual(r1.params, r2.params)
    /\ Len(r1.body) = Len(r2.body)
    /\ r1.body # <<>> => StructurallyEqual(r1.body[1], r2.body[1])

C13_KeyDeterminism ==
    \A c \in Slots : \A d \in Slots \ {c} :
        (calls[c].pc # "idle" /\ calls[d].pc # "idle")
            => /\ SameLogicalRequest(calls[c], calls[d]) <=> KeyOf(calls[c]) = KeyOf(calls[d])
               /\ ~(/\ SameLogicalRequest(calls[c], calls[d])
                     /\ calls[c].pc = "fetching" /\ calls[d].pc = "fetching")

(***************************************************************************)
(* C14 (checked under SpecBatch).  Batch ordering: batchRequests makes,    *)
(* for every request of the list, the call optimizedRequest(endpoint,      *)
(* options), which is tracked like any other call; and once all requests   *)
(* of the batch have succeeded, the batch has resolved to a list of the    *)
(* same length whose i-th element is the response of the i-th request, in  *)
(* whatever order the transport calls were answered.                       *)
(***************************************************************************)
\* the calls to the endpoint among the requests
RequestsTo(requests, endpoint) ==
    Cardinality({i \in 1..Len(requests) : requests[i].endpoint = endpoint})

C14_RunsAll ==
    \A requests \in BatchInputs :
        (batch' # batch /\ batch'.pc # "idle" /\ Len(batch'.slots) = Len(requests)
         /\ batchRequests(requests, MaxBatchCalls))
            => /\ \A i \in 1..Len(requests) :
                     /\ Static(calls'[i]) = Static(NewCall(requests[i]))
                     /\ calls'[i].pc # "idle"
                     /\ calls'[i].calledAt = now
               /\ \A e \in {Items, Resources} :
                     Len(EndpointRecord(endpoints', e).timestamps)
                        = Len(EndpointRecord(endpoints, e).timestamps) + RequestsTo(requests, e)

C14_InOrder ==
    (/\ batch.pc # "idle"
     /\ \A i \in 1..Len(batch.slots) :
           calls[batch.slots[i]].pc = "done" /\ calls[batch.slots[i]].result.kind = "ok")
        => /\ batch.pc = "done"
           /\ batch.result.kind = "ok"
           /\ Len(batch.result.val) = Len(batch.slots)
           /\ \A i \in 1..Len(batch.slots) :
                 batch.result.val[i] = calls[batch.slots[i]].result.val

C14_BatchOrdering == []C14_InOrder /\ [][C14_RunsAll]_vars

\* a batch of two requests has resolved with two different responses, the
\* second request's having been answered before the first's
C14_Witness ==
    /\ batch.pc = "done" /\ batch.result = Resolved(<<"d1", "d2">>)
    /\ calls[1].fetches = 1 /\ calls[2].fetches = 1
    /\ calls[1].result = Resolved("d1") /\ calls[2].result = Resolved("d2")
    /\ KeyOf(calls[1]) \in DOMAIN requestCache /\ KeyOf(calls[2]) \in DOMAIN requestCache
    /\ requestCache[KeyOf(calls[2])].timestamp < requestCache[KeyOf(calls[1])].timestamp
    /\ calls[1].calledAt = calls[2].calledAt

(***************************************************************************)
(* Vocabulary of the properties of checkSupabaseConnection                 *)
(***************************************************************************)
\* the call in slot p is running a probe: it has issued a backend query and
\* has not returned
ProbeInProgress(p) == checks[p].pc \in {"resources", "dummy", "auth"}

\* the step is the call checkSupabaseConnection(forceCheck) in slot p
IsCheck(p, forceCheck) ==
    /\ checks[p].pc \in {"idle", "done"}
    /\ checks'[p].calls = checks[p].calls + 1
    /\ checks'[p].forceCheck = forceCheck
    /\ checkSupabaseConnection(p, forceCheck, MaxChecks)

\* by this step the call in slot p starts a probe
StartsProbe(p) ==
    /\ checks'[p].pc = "resources"
    /\ checks'[p].queries = 1
    /\ connectionStatus'.checkInProgress

(***************************************************************************)
(* C15 (checked under SpecProbe).  Probe single-flight: a call made while  *)
(* a probe is in progress, forced or not, issues no backend query and      *)
(* waits; at no time are two probes in progress; and of two concurrent     *)
(* calls, the one that waited has issued no query and returns the boolean  *)
(* that the call whose probe it waited for returns.                        *)
(***************************************************************************)
C15_NoSecondProbe ==
    \A p \in Checkers, forceCheck \in BOOLEAN :
        (/\ \E q \in Checkers \ {p} : ProbeInProgress(q)
         /\ IsCheck(p, forceCheck))
            => /\ checks'[p].pc = "waiting"
               /\ checks'[p].queries = 0
               /\ connectionStatus' = connectionStatus

C15_OneAtATime == Cardinality({p \in Checkers : ProbeInProgress(p)}) <= 1

C15_SameBoolean ==
    \A w \in Checkers : \A q \in Checkers \ {w} :
        (/\ checks[w].pc = "done"
         /\ checks[w].waitedFor = <<q, checks[q].calls>>)
            => /\ checks[q].pc = "done"
               /\ checks[q].queries >= 1
               /\ checks[w].queries = 0
               /\ checks[w].result = checks[q].result
               /\ checks[w].result \in {"true", "false"}

C15_SingleFlight == [](C15_OneAtATime /\ C15_SameBoolean) /\ [][C15_NoSecondProbe]_vars

\* two concurrent forced calls have returned the same boolean after one probe
C15_Witness ==
    /\ checks[1].pc = "done" /\ checks[2].pc = "done"
    /\ checks[1].forceCheck /\ checks[2].forceCheck
    /\ checks[1].calls = 1 /\ checks[2].calls = 1
    /\ checks[2].waitedFor = <<1, 1>>
    /\ checks[1].queries = 2 /\ checks[2].queries = 0
    /\ checks[1].result = "false" /\ checks[2].result = "false"

(***************************************************************************)
(* C16 (checked under SpecProbe).  Probe cache discipline: a call made     *)
(* when no probe is in progress returns the recorded status, issues no     *)
(* backend query and leaves connectionStatus as it was, when it is not     *)
(* forced, the recorded status is true or false, and lastChecked is less   *)
(* than 5 minutes old; otherwise it starts a probe.                        *)
(***************************************************************************)
C16_CacheDiscipline ==
    [][\A p \in Checkers, forceCheck \in BOOLEAN :
          (/\ \A q \in Checkers : ~ProbeInProgress(q)
           /\ IsCheck(p, forceCheck))
              => IF /\ ~forceCheck
                    /\ connectionStatus.isConnected \in {"true", "false"}
                    /\ now - connectionStatus.lastChecked < 5 * 60 * 1000
                 THEN /\ checks'[p].pc = "done"
                      /\ checks'[p].result = connectionStatus.isConnected
                      /\ checks'[p].queries = 0
                      /\ connectionStatus' = connectionStatus
                 ELSE StartsProbe(p)
      ]_vars

\* a call that was not forced has been answered with the status recorded
\* 100 ms less than 5 minutes before
C16_Witness ==
    \E p \in Checkers :
        /\ checks[p].pc = "done" /\ ~checks[p].forceCheck
        /\ checks[p].queries = 0 /\ checks[p].waitedFor = <<0, 0>>
        /\ checks[p].result = "false"
        /\ checks[p].now = connectionStatus.lastChecked + 299900
        /\ connectionStatus.isConnected = "false"

(***************************************************************************)
(* C17 (checked under SpecAnswers).  Missing relation means connected: a   *)
(* probe whose query on 'resources' or whose fallback query is answered    *)
(* with the error code 42P01, or with no error, records isConnected = true *)
(* with its own lastChecked, clears checkInProgress and returns true.      *)
(***************************************************************************)
C17_Answered(r) ==
    /\ r.answers # <<>>
    /\ Len(r.answers) <= 2
    /\ r.answers[Len(r.answers)] \in {[kind |-> "ok", code |-> "none"],
                                       [kind |-> "error", code |-> "42P01"]}

C17_Returned == \A p \in Checkers : C17_Answered(checks[p]) => checks[p].result = "true"

C17_Recorded ==
    \A p \in Checkers :
        (C17_Answered(checks'[p]) /\ checks'[p].answers # checks[p].answers)
            => /\ checks'[p].pc = "done"
               /\ connectionStatus' = [lastChecked |-> checks[p].now, isConnected |-> "true",
                                        checkInProgress |-> FALSE]

C17_MissingRelation == []C17_Returned /\ [][C17_Recorded]_vars

\* the query on 'resources' failed with another error and the fallback query
\* was answered with 42P01: the check returned true
C17_Witness ==
    /\ checks[1].pc = "done" /\ checks[1].result = "true"
    /\ checks[1].answers = <<[kind |-> "error", code |-> "other"],
                              [kind |-> "error", code |-> "42P01"]>>
    /\ connectionStatus.isConnected = "true"
    /\ connectionStatus.lastChecked = checks[1].now
    /\ ~connectionStatus.checkInProgress

(***************************************************************************)
(* C18 (checked under SpecAnswers).  Unrelated error means disconnected,   *)
(* as claimed: a check that got, to its query on 'resources' or to its     *)
(* fallback query, an answer with an error that is not of the class 42P01  *)
(* returns false, and isConnected = false is recorded as it returns.       *)
(***************************************************************************)
UnrelatedError(answer) == answer.kind = "error" /\ answer.code # "42P01"

\* the step is the return of the check in slot p after a probe
ProbeReturns(p) == ProbeInProgress(p) /\ checks'[p].pc = "done"

\* the step records the status given for the probe of slot p
Records(p, status) ==
    connectionStatus' =
        [lastChecked |-> checks[p].now, isConnected |-> status, checkInProgress |-> FALSE]

C18_GotUnrelated(r) ==
    \E i \in 1..Len(r.answers) : i <= 2 /\ UnrelatedError(r.answers[i])

C18_ReturnsFalse ==
    \A p \in Checkers :
        (checks[p].pc = "done" /\ C18_GotUnrelated(checks[p])) => checks[p].result = "false"

C18_RecordsFalse ==
    \A p \in Checkers :
        (ProbeReturns(p) /\ C18_GotUnrelated(checks'[p])) => Records(p, "false")

C18_UnrelatedError == []C18_ReturnsFalse /\ [][C18_RecordsFalse]_vars

(***************************************************************************)
(* C18 as amended (checked under SpecAnswers): a check whose fallback      *)
(* query is answered with an error that is neither 42P01 nor 404 returns   *)
(* false and records isConnected = false.  An error other than 42P01 in    *)
(* the answer to the query on 'resources' only makes the check go on to    *)
(* the fallback query.  A 404 in the answer to the fallback query makes    *)
(* the check call auth.getSession(): it returns and records true when that *)
(* call returns and false when it throws.                                  *)
(***************************************************************************)
C18_FallbackRefused(r) ==
    /\ Len(r.answers) = 2
    /\ r.answers[2].kind = "error"
    /\ r.answers[2].code \notin {"42P01", "404"}

C18_AmendedReturns ==
    \A p \in Checkers :
        /\ (checks[p].pc = "done" /\ C18_FallbackRefused(checks[p]))
              => checks[p].result = "false"
        /\ (Len(checks[p].answers) = 1 /\ UnrelatedError(checks[p].answers[1]))
              => (checks[p].pc = "dummy" /\ checks[p].queries = 2)
        /\ (Len(checks[p].answers) = 2 /\ checks[p].answers[2] = [kind |-> "error", code |-> "404"])
              => (checks[p].pc = "auth" /\ checks[p].queries = 3)
        /\ (checks[p].pc = "done" /\ Len(checks[p].answers) = 3)
              => /\ checks[p].answers[2] = [kind |-> "error", code |-> "404"]
                 /\ checks[p].result = IF checks[p].answers[3].kind = "throws"
                                        THEN "false" ELSE "true"

C18_AmendedRecords ==
    \A p \in Checkers :
        ProbeReturns(p) =>
            /\ Records(p, checks'[p].result)
            /\ C18_FallbackRefused(checks'[p]) => Records(p, "false")

C18_UnrelatedErrorAmended == []C18_AmendedReturns /\ [][C18_AmendedRecords]_vars

\* both queries were answered with an error of another class: the check
\* returned false and false is recorded
C18_Witness ==
    /\ checks[1].pc = "done" /\ checks[1].result = "false"
    /\ checks[1].answers = <<[kind |-> "error", code |-> "other"],
                              [kind |-> "error", code |-> "other"]>>
    /\ connectionStatus.isConnected = "false"
    /\ connectionStatus.lastChecked = checks[1].now
    /\ ~connectionStatus.checkInProgress

(***************************************************************************)
(* C19 (checked under SpecAnswers).  Probe failure never propagates, as    *)
(* claimed: a check always returns true or false, and one of whose backend *)
(* queries - any of them - threw returns false and records isConnected =   *)
(* false.                                                                  *)
(***************************************************************************)
C19_Threw(r) == \E i \in 1..Len(r.answers) : r.answers[i].kind = "throws"

C19_ReturnsFalse ==
    \A p \in Checkers :
        checks[p].pc = "done"
            => /\ checks[p].result \in {"true", "false"}
               /\ C19_Threw(checks[p]) => checks[p].result = "false"

C19_RecordsFalse ==
    \A p \in Checkers : (ProbeReturns(p) /\ C19_Threw(checks'[p])) => Records(p, "false")

C19_NeverPropagates == []C19_ReturnsFalse /\ [][C19_RecordsFalse]_vars

(***************************************************************************)
(* C19 as amended (checked under SpecAnswers): a check always returns true *)
(* or false.  When its fallback query or its call of auth.getSession()     *)
(* throws, it returns false and records isConnected = false.  When its     *)
(* query on 'resources' throws, the exception is caught and the check goes *)
(* on to the fallback query, whose answer decides the result.              *)
(***************************************************************************)
C19_LastThrew(r) ==
    Len(r.answers) >= 2 /\ r.answers[Len(r.answers)].kind = "throws"

C19_AmendedReturns ==
    \A p \in Checkers :
        /\ checks[p].pc = "done" => checks[p].result \in {"true", "false"}
        /\ (checks[p].pc = "done" /\ C19_LastThrew(checks[p])) => checks[p].result = "false"
        /\ (Len(checks[p].answers) = 1 /\ checks[p].answers[1].kind = "throws")
              => (checks[p].pc = "dummy" /\ checks[p].queries = 2)
        /\ (/\ checks[p].pc = "done" /\ Len(checks[p].answers) = 2
             /\ checks[p].answers[1].kind = "throws")
              => checks[p].result =
                    IF checks[p].answers[2] \in {[kind |-> "ok", code |-> "none"],
                                                  [kind |-> "error", code |-> "42P01"]}
                    THEN "true" ELSE "false"

C19_AmendedRecords ==
    \A p \in Checkers : (ProbeReturns(p) /\ C19_LastThrew(checks'[p])) => Records(p, "false")

C19_NeverPropagatesAmended == []C19_AmendedReturns /\ [][C19_AmendedRecords]_vars

\* the query on 'resources' threw, the fallback query was answered with 404
\* and auth.getSession() threw: the check returned false
C19_Witness ==
    /\ checks[1].pc = "done" /\ checks[1].result = "false"
    /\ checks[1].answers = <<[kind |-> "throws", code |-> "none"],
                              [kind |-> "error", code |-> "404"],
                              [kind |-> "throws", code |-> "none"]>>
    /\ connectionStatus.isConnected = "false"
    /\ ~connectionStatus.checkInProgress

(***************************************************************************)
(* C20 (checked under SpecHang).  No indefinite hang in optimizedRequest:  *)
(* also when the transport never answers, no call waits for ever on a      *)
(* transport call: a call whose transport call is outstanding, and a call  *)
(* that was handed the promise of such a call, eventually is past that     *)
(* wait, the transport call having been answered or having timed out.      *)
(***************************************************************************)
\* the call in slot c waits on an outstanding transport call, its own or that
\* of the call whose promise it was handed
WaitsOnTransport(c) ==
    \/ calls[c].pc = "fetching"
    \/ calls[c].pc = "joined" /\ calls[calls[c].joinTo].pc = "fetching"

C20_NoHang == \A c \in Slots : WaitsOnTransport(c) ~> ~WaitsOnTransport(c)

(***************************************************************************)
(* C21 (checked under SpecThrottle).  Tracking always executes: every call *)
(* of optimizedRequest appends a timestamp to the traffic record of its    *)
(* endpoint - in the step of the call when the call is not paused, and     *)
(* when its pause is over otherwise - whether the call returns a stale     *)
(* entry under throttling, is rejected with the throttled error, is        *)
(* answered from the fresh cache or goes on to the transport.              *)
(***************************************************************************)
\* by this step the time now is appended to the timestamps of the endpoint
AppendsTimestamp(endpoint) ==
    LET before == EndpointRecord(endpoints, endpoint).timestamps
        after == EndpointRecord(endpoints', endpoint).timestamps
    IN /\ after # <<>>
       /\ after[Len(after)] = now
       /\ Len(SelectSeq(after, LAMBDA time : time = now))
              = Len(SelectSeq(before, LAMBDA time : time = now)) + 1

C21_TrackingAlways ==
    [][/\ \A o \in ThrottleOptions :
             (IsCall(1, o, MaxBurst) /\ calls'[1].pc # "paused")
                 => AppendsTimestamp(o.endpoint)
       /\ (calls[1].pc = "paused" /\ calls'[1].pc # "paused")
             => AppendsTimestamp(calls[1].endpoint)
      ]_vars

(***************************************************************************)
(* SpecPause: a burst of failing GET calls of normal priority for one key  *)
(* of '/items' with a caller-supplied TTL of one second, then a call that  *)
(* is paused, while calls of high priority for the same key are made from  *)
(* a second slot                                                           *)
(***************************************************************************)
PauseOptions == Options(Items, <<>>, <<>>, <<1000>>, FALSE, <<0>>, <<>>)

ExemptOptions == Options(Items, <<>>, <<>>, <<1000>>, FALSE, <<0>>, <<"high">>)

NextPause ==
    \/ Call(1, PauseOptions, MaxBurst)
    \/ Call(2, ExemptOptions, MaxBurst)
    \/ Resume(1)
    \/ \E c \in Slots, resp \in ThrottleResponses : FetchRespond(c, resp)
    \/ \E tm \in timers : Unthrottle(tm)
    \/ Tick(ThrottlePause, PauseHorizon)
    \/ Tick(ThrottleDuration, PauseHorizon + ThrottleDuration)

SpecPause == Init /\ [][NextPause]_vars

(***************************************************************************)
(* C22 (checked under SpecPause).  Normal-priority backpressure: a call of *)
(* priority 'normal' to a throttled endpoint whose key has no cache entry  *)
(* is paused, changing nothing else; it stays paused, untouched, until     *)
(* exactly 2 seconds after the call, and then goes on the normal path      *)
(* whatever the throttle flag is by then: it is tracked, and it is         *)
(* answered from a fresh cache entry of its key, or else handed the        *)
(* pending promise of its key, or else invokes the transport.  It is never *)
(* rejected with the throttled error.                                      *)
(***************************************************************************)
\* by this step the call in slot c, whose record is r, takes the normal path
TakesNormalPath(c, r) ==
    /\ AppendsTimestamp(r.endpoint)
    /\ IF CacheLookup(requestCache, r) /\ FreshEntry(r)
       THEN AnsweredFromCache(c, KeyOf(r)) /\ requestCache' = requestCache
       ELSE IF KeyOf(r) \in DOMAIN pendingRequests
       THEN /\ calls'[c].pc = "joined"
            /\ calls'[c].joinTo = pendingRequests[KeyOf(r)]
            /\ calls'[c].fetches = 0
            /\ pendingRequests' = pendingRequests
       ELSE /\ InvokesTransport(c)
            /\ pendingRequests' = MapSet(pendingRequests, KeyOf(r), c)

C22_Pauses ==
    (/\ isThrottled(endpoints, PauseOptions.endpoint)
     /\ KeyOf(NewCall(PauseOptions)) \notin DOMAIN requestCache
     /\ IsCall(1, PauseOptions, MaxBurst))
    => (/\ calls'[1].pc = "paused"
        /\ calls'[1].wakeAt = now + 2000
        /\ UNCHANGED <<requestCache, pendingRequests, endpoints, timers>>)

C22_StaysPaused ==
    (calls[1].pc = "paused" /\ calls'[1] # calls[1])
        => (now = calls[1].calledAt + 2000 /\ calls'[1].pc # "paused")

C22_Continues ==
    (calls[1].pc = "paused" /\ calls'[1].pc # "paused") => TakesNormalPath(1, calls[1])

C22_NeverRejected ==
    \A c \in Slots : calls'[c].priority = "normal" => calls'[c].result # ThrottledError

C22_Backpressure ==
    [][C22_Pauses /\ C22_StaysPaused /\ C22_Continues /\ C22_NeverRejected]_vars

\* a paused call that went on to the transport while its endpoint was still
\* throttled, one that was answered from an entry stored during its pause,
\* and one that was handed the promise of a request made during its pause
C22_Witness ==
    /\ calls[1].priority = "normal"
    /\ calls[1].wakeAt = calls[1].calledAt + 2000
    /\ now = calls[1].wakeAt
    /\ isThrottled(endpoints, calls[1].endpoint)
    /\ calls[1].pc = "fetching"

C22_WitnessCached ==
    /\ calls[1].wakeAt = calls[1].calledAt + 2000
    /\ now = calls[1].wakeAt
    /\ isThrottled(endpoints, calls[1].endpoint)
    /\ calls[1].pc = "done" /\ calls[1].fetches = 0 /\ calls[1].joinTo = 0
    /\ calls[1].result.kind = "ok"
    /\ KeyOf(calls[1]) \in DOMAIN requestCache
    /\ requestCache[KeyOf(calls[1])].timestamp > calls[1].calledAt

C22_WitnessJoined ==
    /\ calls[1].wakeAt = calls[1].calledAt + 2000
    /\ isThrottled(endpoints, calls[1].endpoint)
    /\ calls[1].pc = "joined" /\ calls[1].joinTo = 2

(***************************************************************************)
(* C23 (checked under SpecThrottle).  High priority is exempt from         *)
(* throttling: a call of priority 'high' takes the normal path whether its *)
(* endpoint is throttled or not - it is tracked, and it is answered from   *)
(* the cache only when the entry of its key is fresh, and otherwise handed *)
(* a pending promise or sent to the transport; it is never paused and      *)
(* never rejected with the throttled error.                                *)
(***************************************************************************)
C23_HighExempt ==
    [][\A o \in ThrottleOptions :
          (o.priority = <<"high">> /\ IsCall(1, o, MaxBurst))
              => (/\ TakesNormalPath(1, NewCall(o))
                  /\ calls'[1].pc # "paused"
                  /\ calls'[1].result # ThrottledError
                  /\ (calls'[1].pc = "done" /\ calls'[1].fetches = 0)
                         => (/\ ~o.bypassCache
                             /\ now - requestCache[KeyOf(NewCall(o))].timestamp < 1000))
      ]_vars

\* a call of high priority made while its endpoint was throttled, for a key
\* that the cache no longer has, which went to the transport and was tracked
C23_Witness ==
    /\ calls[1].priority = "high"
    /\ calls[1].pc = "fetching"
    /\ now = calls[1].calledAt
    /\ isThrottled(endpoints, calls[1].endpoint)
    /\ endpoints[calls[1].endpoint].lastWarning < now
    /\ LET stamps == endpoints[calls[1].endpoint].timestamps
       IN stamps[Len(stamps)] = now
    /\ KeyOf(calls[1]) \notin DOMAIN requestCache

(***************************************************************************)
(* SpecRemark: requestTracker alone, tracking two bursts of calls to one   *)
(* endpoint, the second 6 seconds after the first or later                 *)
(***************************************************************************)
RemarkGap == WarningInterval + BurstWindow

RemarkHorizon == StartTime + RemarkGap + ThrottleDuration

NextRemark ==
    \/ Track(Items, MaxRemark)
    \/ \E tm \in timers : Unthrottle(tm)
    \/ Tick(RemarkGap, StartTime + RemarkGap)
    \/ Tick(ThrottleDuration - RemarkGap, RemarkHorizon)

SpecRemark == Init /\ [][NextRemark]_vars

(***************************************************************************)
(* C24 (checked under SpecRemark).  Throttle duration: an endpoint that    *)
(* track marked throttled at a time T is throttled at every time from T to *)
(* T + 10 seconds, whatever timers earlier markings have scheduled.        *)
(***************************************************************************)
C24_ThrottleDuration ==
    \A e \in DOMAIN endpoints :
        (endpoints[e].lastWarning > 0 /\ now < endpoints[e].lastWarning + 10000)
            => endpoints[e].isThrottled

(***************************************************************************)
(* SpecStore: bursts of sequential GET and POST calls of normal and low    *)
(* priority for the one key of '/items' with a caller-supplied TTL of one  *)
(* second, against a transport that fails in every way                     *)
(***************************************************************************)
StoreOptions ==
    {Options(Items, m, <<>>, <<1000>>, FALSE, <<0>>, pr) :
        m \in {<<>>, <<"POST">>}, pr \in {<<>>, <<"low">>}}

NextStore ==
    \/ \E o \in StoreOptions : Call(1, o, MaxBurst)
    \/ Resume(1)
    \/ \E resp \in Responses : FetchRespond(1, resp)
    \/ \E tm \in timers : Unthrottle(tm)
    \/ Tick(ThrottlePause, PauseHorizon)
    \/ Tick(ThrottleDuration, PauseHorizon + ThrottleDuration)

SpecStore == Init /\ [][NextStore]_vars

(***************************************************************************)
(* C25 (checked under SpecStore).  Only successful GETs populate the       *)
(* cache: every cache entry has the key of a GET request and a timestamp   *)
(* that is not in the future; a step creates or changes a cache entry only *)
(* when it is the 2xx, decodable answer of the transport to a GET request  *)
(* with that key, and the entry then holds the decoded body and the time   *)
(* of the answer; and every such answer stores its entry.  So a failed     *)
(* attempt, a request of another method, a cache hit and a stale read      *)
(* under throttling leave every entry as it was.                           *)
(***************************************************************************)
C25_EntriesOfGets ==
    \A k \in DOMAIN requestCache :
        k[2][1] = "GET" /\ requestCache[k].timestamp <= now

\* the step is the answer resp of the transport to the request in slot c
IsAnswer(c, resp) == calls[c].pc = "fetching" /\ FetchRespond(c, resp)

C25_StoredOnSuccess ==
    \A k \in DOMAIN requestCache' :
        (k \notin DOMAIN requestCache \/ requestCache'[k] # requestCache[k])
            => \E c \in Slots, resp \in Responses :
                  /\ calls[c].method = "GET"
                  /\ KeyOf(calls[c]) = k
                  /\ ~FailedResponse(resp)
                  /\ IsAnswer(c, resp)
                  /\ requestCache'[k] = [data |-> resp.data, timestamp |-> now]

C25_SuccessStores ==
    \A c \in Slots, resp \in Responses :
        (calls[c].pc = "fetching" /\ calls[c].method = "GET" /\ ~FailedResponse(resp)
             /\ IsAnswer(c, resp))
            => (/\ KeyOf(calls[c]) \in DOMAIN requestCache'
                /\ requestCache'[KeyOf(calls[c])] = [data |-> resp.data, timestamp |-> now])

C25_OnlySuccessfulGets ==
    []C25_EntriesOfGets /\ [][C25_StoredOnSuccess /\ C25_SuccessStores]_vars

\* a POST request has succeeded while the cache held the entry that an
\* earlier GET request stored, and the endpoint was throttled
C25_Witness ==
    /\ calls[1].pc = "done"
    /\ calls[1].method = "POST"
    /\ calls[1].fetches = 1
    /\ calls[1].result.kind = "ok"
    /\ isThrottled(endpoints, Items)
    /\ \E k \in DOMAIN requestCache :
          k[2][1] = "GET" /\ requestCache[k].timestamp < now

(***************************************************************************)
(* SpecEvict: GET calls for the one key of '/items' with a caller-supplied *)
(* TTL of one second, of normal priority with and without bypassCache     *)
(* from one slot and of high priority from the other, made in bursts and   *)
(* repeated after the entry has expired, and calls of clearRequestCache    *)
(* with and without an endpoint                                            *)
(***************************************************************************)
EvictOptions == {Options(Items, <<>>, <<>>, <<1000>>, b, <<0>>, <<>>) : b \in BOOLEAN}

NextEvict ==
    \/ \E o \in EvictOptions : Call(1, o, MaxBurst)
    \/ Call(2, ExemptOptions, MaxBurst)
    \/ Resume(1)
    \/ \E c \in Slots, resp \in ThrottleResponses : FetchRespond(c, resp)
    \/ \E endpoint \in {<<>>, <<Items>>} : clearRequestCache(endpoint)
    \/ \E tm \in timers : Unthrottle(tm)
    \/ Tick(ThrottlePause, PauseHorizon)
    \/ Tick(ThrottleDuration, PauseHorizon + ThrottleDuration)

SpecEvict == Init /\ [][NextEvict]_vars

(***************************************************************************)
(* C26 (checked under SpecEvict).  Lazy eviction: a step takes an entry    *)
(* out of the cache only when it is a call of clearRequestCache, or when   *)
(* it is a GET call without bypassCache for the entry's key that takes the *)
(* normal path - tracked, and not diverted by the throttle check - and     *)
(* finds the entry expired; that step removes the entry and only then      *)
(* deduplicates the call or invokes the transport.  No other step - the    *)
(* passing of time, a timer, an answer of the transport, a stale read      *)
(* under throttling - removes an entry.                                    *)
(***************************************************************************)
\* the step is a call of clearRequestCache
IsClear ==
    /\ calls' = calls
    /\ \E endpoint \in {<<>>, <<Items>>} : clearRequestCache(endpoint)

\* by this step the call in slot c looks up key k on the normal path, finds
\* its entry expired, and goes on to the pending table or the transport
ExpiredLookup(c, k) ==
    /\ calls[c].pc \in {"idle", "done", "paused"}
    /\ calls'[c].pc \in {"fetching", "joined"}
    /\ calls'[c].method = "GET"
    /\ ~calls'[c].bypassCache
    /\ KeyOf(calls'[c]) = k
    /\ now - requestCache[k].timestamp >= TTLOf(calls'[c])
    /\ \/ calls[c].pc = "paused"
       \/ calls'[c].priority = "high"
       \/ ~isThrottled(endpoints, calls'[c].endpoint)
    /\ AppendsTimestamp(calls'[c].endpoint)

C26_LazyEviction ==
    [][\A k \in DOMAIN requestCache :
          k \notin DOMAIN requestCache'
              => (IsClear \/ \E c \in Slots : ExpiredLookup(c, k))
      ]_vars

\* the successful GET request of slot 2 stored an entry, which has left the
\* cache by the time the call of slot 1, made when the entry had expired,
\* waits for the transport
C26_Witness ==
    /\ calls[2].pc = "done" /\ calls[2].fetches = 1 /\ calls[2].result.kind = "ok"
    /\ calls[1].pc = "fetching"
    /\ ~calls[1].bypassCache
    /\ calls[1].calledAt >= calls[2].calledAt + 1000
    /\ KeyOf(calls[1]) = KeyOf(calls[2])
    /\ KeyOf(calls[1]) \notin DOMAIN requestCache

\* an entry that expired while its endpoint was throttled is still there
C26_WitnessKept ==
    /\ isThrottled(endpoints, Items)
    /\ \E k \in DOMAIN requestCache : now - requestCache[k].timestamp >= 10000

(***************************************************************************)
(* C27 (checked under SpecBatch).  Batch failure semantics: a pending      *)
(* batch rejects in the step in which one of its requests rejects, and     *)
(* only then, with the error of a request that rejects in that step; the   *)
(* rejection changes nothing about the other requests of the batch, which  *)
(* keep their pending entries; and a request of a rejected batch that is   *)
(* answered afterwards settles as any request does: with the decoded body, *)
(* stored in the cache when the request is a GET, or with its error, and   *)
(* with its pending entry removed.                                         *)
(***************************************************************************)
\* the call in slot c is one of the requests of batch b
BatchHas(b, c) == \E i \in 1..Len(b.slots) : b.slots[i] = c

\* by this step the call in slot c is rejected
RejectedNow(c) ==
    calls'[c].pc = "done" /\ calls'[c].result.kind = "err" /\ calls'[c] # calls[c]

C27_Rejects ==
    batch.pc = "pending"
        => ((\E c \in Slots : BatchHas(batch, c) /\ RejectedNow(c))
                <=> (batch'.pc = "done" /\ batch'.result.kind = "err"))

C27_WithThatError ==
    (batch.pc = "pending" /\ batch'.pc = "done" /\ batch'.result.kind = "err")
        => \E c \in Slots :
              BatchHas(batch, c) /\ RejectedNow(c) /\ batch'.result = calls'[c].result

C27_NothingCancelled ==
    (batch.pc = "pending" /\ batch'.pc = "done" /\ batch'.result.kind = "err")
        => \A c \in Slots :
              (BatchHas(batch, c) /\ calls[c].pc = "fetching" /\ ~RejectedNow(c))
                  => (/\ calls'[c] = calls[c]
                      /\ KeyOf(calls[c]) \in DOMAIN pendingRequests'
                      /\ pendingRequests'[KeyOf(calls[c])] = pendingRequests[KeyOf(calls[c])])

C27_RunsOn ==
    \A c \in Slots, resp \in CacheResponses :
        (/\ batch.pc = "done" /\ batch.result.kind = "err"
         /\ BatchHas(batch, c)
         /\ IsAnswer(c, resp))
            => (/\ calls'[c].pc = "done"
                /\ calls'[c].result.kind = (IF FailedResponse(resp) THEN "err" ELSE "ok")
                /\ ~FailedResponse(resp) => calls'[c].result.val = resp.data
                /\ (~FailedResponse(resp) /\ calls[c].method = "GET")
                       => (/\ KeyOf(calls[c]) \in DOMAIN requestCache'
                           /\ requestCache'[KeyOf(calls[c])]
                                  = [data |-> resp.data, timestamp |-> now])
                /\ KeyOf(calls[c]) \notin DOMAIN pendingRequests'
                /\ batch' = batch)

C27_BatchFailure ==
    [][C27_Rejects /\ C27_WithThatError /\ C27_NothingCancelled /\ C27_RunsOn]_vars

\* the batch has rejected with the error of its first request while its
\* second request still waits for the transport, its pending entry in place
C27_Witness ==
    /\ batch.pc = "done" /\ batch.result.kind = "err"
    /\ batch.slots = <<1, 2>>
    /\ calls[1].pc = "done" /\ calls[1].result = batch.result
    /\ calls[2].pc = "fetching"
    /\ KeyOf(calls[2]) \in DOMAIN pendingRequests
    /\ pendingRequests[KeyOf(calls[2])] = 2

\* the requests of a rejected batch have all settled, a GET among them
\* having stored its response a second after the batch was made
C27_WitnessSettled ==
    /\ batch.pc = "done" /\ batch.result.kind = "err"
    /\ batch.slots = <<1, 2>>
    /\ calls[1].pc = "done" /\ calls[1].result = batch.result
    /\ calls[2].pc = "done" /\ calls[2].result.kind = "ok" /\ calls[2].fetches = 1
    /\ calls[2].method = "GET"
    /\ KeyOf(calls[2]) \in DOMAIN requestCache
    /\ requestCache[KeyOf(calls[2])].timestamp = calls[2].calledAt + 1000
    /\ pendingRequests = <<>>

(***************************************************************************)
(* SpecCleanup: two callers of checkSupabaseConnection, forcing or not,    *)
(* against a backend that answers every query in every way, within 200 ms  *)
(***************************************************************************)
NextCleanup ==
    \/ \E p \in Checkers, forceCheck \in BOOLEAN :
          checkSupabaseConnection(p, forceCheck, MaxChecks)
    \/ \E p \in Checkers : Poll(p)
    \/ \E p \in Checkers, answer \in Answers : QueryRespond(p, answer)
    \/ Tick(PollInterval, PollHorizon)

SpecCleanup == Init /\ [][NextCleanup]_vars

(***************************************************************************)
(* C28 (checked under SpecCleanup).  Guaranteed probe cleanup: in the step *)
(* in which a call of checkSupabaseConnection that started a probe         *)
(* returns, whatever the answers to its queries were, checkInProgress      *)
(* becomes false, lastChecked becomes the time that call took as its now,  *)
(* and isConnected becomes the boolean the call returns; and in every      *)
(* state checkInProgress is true only while a call is running a probe.     *)
(***************************************************************************)
C28_Returns ==
    \A p \in Checkers :
        (ProbeInProgress(p) /\ checks'[p].pc = "done")
            => (/\ ~connectionStatus'.checkInProgress
                /\ connectionStatus'.lastChecked = checks[p].now
                /\ checks'[p].result \in {"true", "false"}
                /\ connectionStatus'.isConnected = checks'[p].result)

C28_FlagMeansRunning ==
    connectionStatus.checkInProgress => \E p \in Checkers : ProbeInProgress(p)

C28_ProbeCleanup == []C28_FlagMeansRunning /\ [][C28_Returns]_vars

\* a probe whose queries were answered with an unrelated error, with a 404
\* and with an exception has returned, 100 ms or more after it began
C28_Witness ==
    /\ checks[1].pc = "done"
    /\ checks[1].answers = <<BackendError("other"), BackendError("404"), Throws>>
    /\ checks[1].result = "false"
    /\ now > checks[1].now
    /\ connectionStatus =
          [lastChecked |-> checks[1].now, isConnected |-> "false", checkInProgress |-> FALSE]

(***************************************************************************)
(* SpecWaiter: a caller of checkSupabaseConnection that starts a probe, a  *)
(* caller that waits for it, and a third caller that forces further checks *)
(* once the probe has returned; the first two call once                    *)
(***************************************************************************)
NextWaiter ==
    \/ \E p \in Checkers, forceCheck \in BOOLEAN : checkSupabaseConnection(p, forceCheck, 1)
    \/ checkSupabaseConnection(3, TRUE, MaxChecks)
    \/ \E p \in Callers : Poll(p)
    \/ \E p \in Callers, answer \in ProbeAnswers : QueryRespond(p, answer)
    \/ Tick(PollInterval, PollHorizon)

SpecWaiter == Init /\ [][NextWaiter]_vars

(***************************************************************************)
(* C29 (checked under SpecWaiter).  A waiting caller returns the           *)
(* waited-for probe's result: a call that found a probe in progress and    *)
(* has returned, has returned true or false, and the very boolean that the *)
(* call whose probe it waited for returned, whatever checks other callers  *)
(* have started since.                                                     *)
(***************************************************************************)
C29_WaitedForResult ==
    \A w \in Callers : \A q \in Callers \ {w} :
        (/\ checks[w].pc = "done"
         /\ checks[w].waitedFor = <<q, checks[q].calls>>)
            => (/\ checks[w].result \in {"true", "false"}
                /\ checks[q].pc = "done"
                /\ checks[w].result = checks[q].result)

(***************************************************************************)
(* C30 (checked under SpecWaiter).  No indefinite hang in the prober: a    *)
(* call of checkSupabaseConnection that waits for a probe in progress      *)
(* returns once that probe has finished, that is at the first run of its   *)
(* polling interval after the probe returned, whatever checks other        *)
(* callers have started since; so no sequence of further checks can keep   *)
(* it waiting.                                                             *)
(***************************************************************************)
\* the probe that the waiting call in slot w found in progress has returned
WaitedForFinished(w) ==
    LET q == checks[w].waitedFor[1]
        n == checks[w].waitedFor[2]
    IN /\ checks[w].pc = "waiting"
       /\ q \in Callers
       /\ checks[q].calls > n \/ (checks[q].calls = n /\ checks[q].pc = "done")

\* the step is a run of the polling interval of the call in slot w
IsPoll(w) == checks[w].pc = "waiting" /\ checks'[w] # checks[w] /\ Poll(w)

LastCompletedProbe(q) ==
    /\ checks[q].pc = "done"
    /\ checks[q].queries >= 1
    /\ connectionStatus.lastChecked = checks[q].now
    /\ connectionStatus.isConnected = checks[q].result
    /\ ~connectionStatus.checkInProgress

C31_CompletionTime ==
    [][\A p \in Checkers : \A q \in Checkers \ {p} :
          (/\ LastCompletedProbe(q)
           /\ now < checks[q].now + checks[q].responseTime + 300000
           /\ IsCheck(p, FALSE))
              => (/\ checks'[p].pc = "done"
                  /\ checks'[p].result = checks[q].result
                  /\ checks'[p].queries = 0
                  /\ connectionStatus' = connectionStatus)
      ]_vars

(***************************************************************************)
(* The '/health' path of the custom fetch handed to createClient           *)
(* (supabase.js): a request is answered from the shared connectionStatus   *)
(* when that was checked less than five minutes ago and is not null; else, *)
(* when a check is in progress, it pauses 100 ms and is answered from the  *)
(* shared isConnected as it is then; else it sets checkInProgress, awaits  *)
(* checkConnectionStatus(), records the boolean and the time of the        *)
(* answer, and clears the flag                                             *)
(***************************************************************************)
HealthPause == 100          \* setTimeout(resolve, 100), supabase.js

MaxHealth == 2      \* '/health' requests made through the client

\* status of the mock Response: connectionStatus.isConnected ? 200 : 503
MockStatus(isConnected) == IF isConnected = "true" THEN 200 ELSE 503

\* the test that answers a '/health' request from the cached status
HealthCached(status, t) == t - status.lastChecked < StatusWindow /\ status.isConnected # "null"

fetchHealth(maxHealth) ==
    /\ health.pc \in {"idle", "done"}
    /\ health.calls < maxHealth
    /\ IF HealthCached(connectionStatus, now)
       THEN /\ health' = [pc |-> "done", wakeAt |-> 0,
                          status |-> MockStatus(connectionStatus.isConnected),
                          calls |-> health.calls + 1]
            /\ UNCHANGED connectionStatus
       ELSE IF connectionStatus.checkInProgress
       THEN /\ health' = [pc |-> "pausing", wakeAt |-> now + HealthPause, status |-> 0,
                          calls |-> health.calls + 1]
            /\ UNCHANGED connectionStatus
       ELSE /\ health' = [pc |-> "checking", wakeAt |-> 0, status |-> 0,
                          calls |-> health.calls + 1]
            /\ connectionStatus' = [connectionStatus EXCEPT !.checkInProgress = TRUE]
    /\ UNCHANGED <<now, managerVars, checks, execution>>

\* the 100 ms pause is over: the Response is built from isConnected as it is now
HealthPauseOver ==
    /\ health.pc = "pausing"
    /\ now >= health.wakeAt
    /\ health' = [health EXCEPT !.pc = "done",
                                !.status = MockStatus(connectionStatus.isConnected)]
    /\ UNCHANGED <<now, managerVars, connectionStatus, checks, execution>>

\* checkConnectionStatus() of requestManager.js resolves, with true or false
HealthCheckReturns(isConnected) ==
    /\ health.pc = "checking"
    /\ connectionStatus' = [isConnected |-> isConnected, lastChecked |-> now,
                            checkInProgress |-> FALSE]
    /\ health' = [health EXCEPT !.pc = "done", !.status = MockStatus(isConnected)]
    /\ UNCHANGED <<now, managerVars, checks, execution>>

(***************************************************************************)
(* SpecWrapper: one caller of checkSupabaseConnection, forcing or not, and *)
(* '/health' requests made through the client, within 200 ms and again     *)
(* five minutes later                                                      *)
(***************************************************************************)
NextWrapper ==
    \/ \E forceCheck \in BOOLEAN : checkSupabaseConnection(1, forceCheck, MaxChecks)
    \/ Poll(1)
    \/ \E answer \in ProbeAnswers : QueryRespond(1, answer)
    \/ fetchHealth(MaxHealth)
    \/ HealthPauseOver
    \/ \E isConnected \in {"true", "false"} : HealthCheckReturns(isConnected)
    \/ Tick(PollInterval, PollHorizon)
    \/ Tick(StatusWindow - PollInterval, PollHorizon + StatusWindow - PollInterval)

SpecWrapper == Init /\ [][NextWrapper]_vars

(***************************************************************************)
(* C32 (checked under SpecWrapper).  connectionStatus is mutated only by   *)
(* the probe routine: a step that changes isConnected, lastChecked or      *)
(* checkInProgress is a step of a call of checkSupabaseConnection, and a   *)
(* step of the '/health' path of the client's fetch leaves all three as    *)
(* they are.                                                               *)
(***************************************************************************)
C32_OnlyProbeMutates ==
    [][connectionStatus' # connectionStatus =>
          /\ health' = health
          /\ \E p \in Callers : checks'[p] # checks[p]
      ]_vars

(***************************************************************************)
(* C38 (checked under SpecWrapper).  Wrapper health answers reflect a      *)
(* completed check: in a step in which a '/health' request is answered     *)
(* from the shared connectionStatus and not from the network, isConnected  *)
(* is true or false and not null, the status of the Response is 200 for    *)
(* true and 503 for false, and when the request paused for a check in      *)
(* progress, no check is in progress any more.                             *)
(***************************************************************************)
\* by this step a '/health' request is answered from the shared status
AnswersFromStatus ==
    /\ health.pc \in {"idle", "done", "pausing"}
    /\ health'.pc = "done"
    /\ health' # health

C38_DefiniteAnswer ==
    [][AnswersFromStatus =>
          /\ connectionStatus.isConnected \in {"true", "false"}
          /\ health'.status = MockStatus(connectionStatus.isConnected)
          /\ (health.pc = "pausing" => ~connectionStatus.checkInProgress)
      ]_vars

(***************************************************************************)
(* SpecUrl: calls, one at a time, to relative and absolute endpoints, with *)
(* and without a query string of their own, with params that have no       *)
(* property, one or two, some of them null or undefined                    *)
(***************************************************************************)
ItemsQuery == <<"items", "?", "page=1">>
AbsoluteQuery == <<"https", ":", "api", "items", "?", "page=1">>

UrlParams ==
    {<<>>, <<<<"a", "1">>>>, <<<<"a", "1">>, <<"b", "2">>>>, <<<<"a", "null">>>>,
     <<<<"a", "1">>, <<"b", "null">>>>, <<<<"a", "undefined">>, <<"b", "2">>>>}

UrlOptions ==
    {Options(e, <<>>, p, <<>>, FALSE, <<0>>, <<>>) :
        e \in {Items, ItemsQuery, AbsoluteItems, AbsoluteQuery}, p \in UrlParams}

NextUrl ==
    \/ \E o \in UrlOptions : Call(1, o, MaxOther)
    \/ FetchRespond(1, HttpResponse(200, TRUE, "d1"))

SpecUrl == Init /\ [][NextUrl]_vars

(***************************************************************************)
(* C33 (checked under SpecUrl).  URL building: the url of a request whose  *)
(* params have a value that is neither null nor undefined is the endpoint, *)
(* then '?' when the endpoint has no query string and '&' when it has one, *)
(* then the name=value pairs of the params that are neither null nor       *)
(* undefined, joined by '&'; it never holds two '?', for relative and for  *)
(* absolute endpoints alike.                                               *)
(***************************************************************************)
Separators(url) == {i \in 1..Len(url) : url[i] = "?"}

HasValue(params) == \E i \in 1..Len(params) : params[i][2] \notin {"undefined", "null"}

C33_UrlBuilding ==
    \A c \in Slots :
        (calls[c].fetches >= 1 /\ HasValue(calls[c].params)) =>
            /\ calls[c].url =
                  calls[c].endpoint
                  \o <<IF Includes(calls[c].endpoint, "?") THEN "&" ELSE "?">>
                  \o toString(QueryParams(calls[c].params))
            /\ Cardinality(Separators(calls[c].url)) <= 1
            /\ ~Includes(calls[c].url, "null")
            /\ ~Includes(calls[c].url, "undefined")

(***************************************************************************)
(* C34 (checked under SpecRetry).  Cleanup touches only the request's own  *)
(* pending entry: a step that removes the pending entry created by the     *)
(* request of a slot, while that request is still in flight, is a step of  *)
(* that very request and of no other.                                      *)
(***************************************************************************)
C34_OwnEntryOnly ==
    [][\A k \in DOMAIN pendingRequests :
          (k \notin DOMAIN pendingRequests' /\ InFlight(pendingRequests[k]))
              => calls'[pendingRequests[k]] # calls[pendingRequests[k]]
      ]_vars

(***************************************************************************)
(* SpecLeak: GET calls for two keys of one endpoint, one of them with      *)
(* params that are null, with retryCount 0, 1 and 2, against a transport   *)
(* that fails or answers                                                   *)
(***************************************************************************)
LeakHorizon == StartTime + 3000

LeakOptions ==
    {Options(Items, <<>>, p, <<>>, FALSE, rc, <<>>) :
        p \in {<<>>, Null}, rc \in {<<>>, <<0>>, <<1>>}}

LeakResponses == {NetworkFailure, HttpResponse(200, TRUE, "d1")}

NextLeak ==
    \/ \E c \in Slots, o \in LeakOptions : Call(c, o, MaxCalls)
    \/ \E c \in Slots, resp \in LeakResponses : FetchRespond(c, resp)
    \/ \E c \in Slots : Retry(c)
    \/ Tick(1000, LeakHorizon)

SpecLeak == Init /\ [][NextLeak]_vars

(***************************************************************************)
(* C35 (checked under SpecLeak).  No leaked pending entries: a key that    *)
(* has an entry in the pending table is the key of a call that has not     *)
(* reached its terminal outcome, whatever the retryCount and wherever the  *)
(* failure of an attempt is raised, before its first suspension point      *)
(* included.                                                               *)
(***************************************************************************)
C35_NoLeakedEntry ==
    \A k \in DOMAIN pendingRequests :
        \E c \in Slots : KeyOf(calls[c]) = k /\ calls[c].pc \notin {"idle", "done"}

(***************************************************************************)
(* C36 (checked under SpecEvict).  Invalidation against in-flight          *)
(* requests: a call of clearRequestCache changes neither the pending table *)
(* nor the traffic records, and a GET for an invalidated key that is made  *)
(* once it has returned is not answered at once, from the cache or from    *)
(* what the pending table holds, and is not handed the promise of a        *)
(* request whose transport call was issued before the invalidation.        *)
(***************************************************************************)
\* what the call optimizedRequest(o.endpoint, o) in slot c would come to, were
\* it made in the state that this step leaves
CallAfterStep(c, o) == CallEffect(State', c, o, now').calls[c]

C36_Invalidation ==
    [][IsClear =>
          /\ pendingRequests' = pendingRequests
          /\ <<endpoints, lastCleanup, timers>>' = <<endpoints, lastCleanup, timers>>
          /\ \A c \in Slots, o \in EvictOptions \cup {ExemptOptions} :
                CanCall(State', batch', c, o, MaxBurst) =>
                    /\ CallAfterStep(c, o).pc # "joined"
                    /\ CallAfterStep(c, o).result.kind # "ok"
      ]_vars

(***************************************************************************)
(* SpecReader: GET calls for the one key of '/items', some with a          *)
(* caller-supplied TTL of one second and some with one of two seconds,     *)
(* made at once and one and two seconds after the entry was stored         *)
(***************************************************************************)
ShortTTL == 1000
LongTTL == 2000

ReaderHorizon == StartTime + LongTTL

ReaderOptions ==
    {Options(Items, <<>>, <<>>, <<ttl>>, FALSE, <<0>>, <<>>) : ttl \in {ShortTTL, LongTTL}}

NextReader ==
    \/ \E c \in Slots, o \in ReaderOptions : Call(c, o, MaxCalls)
    \/ \E c \in Slots : FetchRespond(c, HttpResponse(200, TRUE, "d1"))
    \/ Tick(ShortTTL, ReaderHorizon)

SpecReader == Init /\ [][NextReader]_vars

(***************************************************************************)
(* C37 (checked under SpecReader).  Freshness is judged by the reader:     *)
(* calls that differ in cacheTTL alone have one key, and an entry holds    *)
(* the data and the time it was stored and no TTL; a call that finds an    *)
(* entry for its key is served from it when the entry's age is below the   *)
(* call's own TTL, and otherwise deletes it and goes on to the pending     *)
(* table or the transport; so a call with the shorter TTL re-fetches an    *)
(* entry from which a call with the longer TTL, made in the same state,    *)
(* would have been served.                                                 *)
(***************************************************************************)
ItemsKey == generateCacheKey(Items, "GET", <<>>, <<>>)

C37_KeyAndEntry ==
    /\ \A c \in Slots : calls[c].pc # "idle" => KeyOf(calls[c]) = ItemsKey
    /\ \A k \in DOMAIN requestCache : DOMAIN requestCache[k] = {"data", "timestamp"}

C37_ReaderDecides ==
    \A c \in Slots, o \in ReaderOptions :
        (IsCall(c, o, MaxCalls) /\ ItemsKey \in DOMAIN requestCache) =>
            IF now - requestCache[ItemsKey].timestamp < o.cacheTTL[1]
            THEN AnsweredFromCache(c, ItemsKey) /\ requestCache' = requestCache
            ELSE /\ ItemsKey \notin DOMAIN requestCache'
                 /\ calls'[c].pc \in {"fetching", "joined"}
                 /\ calls'[c].result = NoResult

C37_ShorterRefetches ==
    \A c \in Slots :
        (/\ IsCall(c, Options(Items, <<>>, <<>>, <<ShortTTL>>, FALSE, <<0>>, <<>>), MaxCalls)
         /\ ItemsKey \in DOMAIN requestCache
         /\ now - requestCache[ItemsKey].timestamp >= ShortTTL
         /\ now - requestCache[ItemsKey].timestamp < LongTTL)
            => /\ calls'[c].pc \in {"fetching", "joined"}
               /\ CallEffect(State, c, Options(Items, <<>>, <<>>, <<LongTTL>>, FALSE, <<0>>,
                                               <<>>), now).calls[c].result
                     = Resolved(requestCache[ItemsKey].data)

C37_ReaderJudges ==
    []C37_KeyAndEntry /\ [][C37_ReaderDecides /\ C37_ShorterRefetches]_vars

\* the call of slot 2, with the longer TTL, was served from the entry, and the
\* call of slot 1, made at the same time with the shorter TTL, has deleted
\* the entry and waits for the transport
C37_Witness ==
    /\ calls[2].pc = "done"
    /\ calls[2].cacheTTL = <<LongTTL>>
    /\ calls[2].fetches = 0
    /\ calls[2].result = Resolved("d1")
    /\ calls[1].pc = "fetching"
    /\ calls[1].cacheTTL = <<ShortTTL>>
    /\ calls[1].calledAt = calls[2].calledAt
    /\ ItemsKey \notin DOMAIN requestCache

(***************************************************************************)
(* executeWithRetry(queryFn, maxRetries, delay) of supabase.js.  An error  *)
(* is a record of its message, the sequence of its words (empty when the   *)
(* error has none), and its code ("none" when it has none).                *)
(***************************************************************************)
MaxExecutions == 2      \* invocations of executeWithRetry

\* the classification of the catch block
shouldRetry(error) ==
    \/ error.message = <<"Failed", "to", "fetch">>
    \/ error.code = "NETWORK_ERROR"
    \/ error.code = "42P01"
    \/ error.code = "PGRST116"
    \/ Includes(error.message, "connection")
    \/ Includes(error.message, "timeout")

\* the wait before the next turn of the loop
RetryWait_Constant(delay, attempt) == delay

RetryWait(delay, attempt) == delay * (attempt + 1)

\* the loop test, followed by the invocation of queryFn or by throw lastError
LoopTurn(e, attempt) ==
    IF attempt < e.maxRetries
    THEN [e EXCEPT !.pc = "querying", !.attempt = attempt, !.invocations = e.invocations + 1]
    ELSE [e EXCEPT !.pc = "thrown", !.attempt = attempt, !.error = e.lastError]

executeWithRetry(maxRetries, delay, maxExecutions) ==
    /\ execution.pc \in {"idle", "returned", "thrown"}
    /\ execution.calls < maxExecutions
    /\ execution' = LoopTurn([IdleExecution EXCEPT !.maxRetries = maxRetries, !.delay = delay,
                                                   !.calls = execution.calls + 1], 0)
    /\ UNCHANGED <<now, managerVars, connectionStatus, checks, health>>

\* queryFn() resolves
QueryReturns(result) ==
    /\ execution.pc = "querying"
    /\ execution' = [execution EXCEPT !.pc = "returned", !.result = result]
    /\ UNCHANGED <<now, managerVars, connectionStatus, checks, health>>

\* queryFn() throws or rejects
QueryThrows(error) ==
    /\ execution.pc = "querying"
    /\ execution' =
          IF shouldRetry(error)
          THEN [execution EXCEPT !.pc = "waiting", !.lastError = error, !.failedAt = now,
                                 !.wakeAt = now + RetryWait(execution.delay, execution.attempt)]
          ELSE [execution EXCEPT !.pc = "thrown", !.lastError = error, !.error = error]
    /\ UNCHANGED <<now, managerVars, connectionStatus, checks, health>>

\* the wait is over: continue
RetryWaitOver ==
    /\ execution.pc = "waiting"
    /\ now >= execution.wakeAt
    /\ execution' = LoopTurn(execution, execution.attempt + 1)
    /\ UNCHANGED <<now, managerVars, connectionStatus, checks, health>>

(***************************************************************************)
(* SpecExecute: invocations of executeWithRetry with maxRetries 0 to 3 and *)
(* a delay of one or two seconds, on a queryFn that returns or fails with  *)
(* errors of every class                                                   *)
(***************************************************************************)
QueryErrors ==
    {[message |-> <<"Failed", "to", "fetch">>, code |-> "none"],
     [message |-> <<"request", "timeout">>, code |-> "none"],
     [message |-> <<"relation", "missing">>, code |-> "42P01"],
     [message |-> <<"permission", "denied">>, code |-> "42501"],
     [message |-> <<>>, code |-> "none"]}

ExecuteHorizon == StartTime + 12000

NextExecute ==
    \/ \E maxRetries \in 0..3, delay \in {1000, 2000} :
          executeWithRetry(maxRetries, delay, MaxExecutions)
    \/ QueryReturns("rows")
    \/ \E error \in QueryErrors : QueryThrows(error)
    \/ RetryWaitOver
    \/ Tick(1000, ExecuteHorizon)

SpecExecute == Init /\ [][NextExecute]_vars

(***************************************************************************)
(* C39 (checked under SpecExecute).  executeWithRetry invokes queryFn at   *)
(* most maxRetries times; it returns the result of the first invocation    *)
(* that does not throw; an error that is not classified as retriable is    *)
(* rethrown at once, with no further invocation; after maxRetries          *)
(* retriable failures it throws the last error; and the wait after the     *)
(* failed attempt k, counted from 0, is delay * (k + 1).                   *)
(***************************************************************************)
C39_AtMostMaxRetries ==
    /\ execution.invocations <= execution.maxRetries
    /\ execution.pc \in {"querying", "waiting"} => execution.invocations = execution.attempt + 1

C39_Returns ==
    (execution.pc = "querying" /\ QueryReturns("rows")) =>
        /\ execution'.pc = "returned"
        /\ execution'.result = "rows"
        /\ execution'.invocations = execution.invocations

C39_Rethrows ==
    \A error \in QueryErrors :
        (execution.pc = "querying" /\ ~shouldRetry(error) /\ QueryThrows(error)) =>
            /\ execution'.pc = "thrown"
            /\ execution'.error = error
            /\ execution'.invocations = execution.invocations

C39_Waits ==
    \A error \in QueryErrors :
        (execution.pc = "querying" /\ shouldRetry(error) /\ QueryThrows(error)) =>
            /\ execution'.pc = "waiting"
            /\ execution'.lastError = error
            /\ execution'.wakeAt = now + execution.delay * (execution.attempt + 1)

C39_GoesOn ==
    (execution.pc = "waiting" /\ execution'.pc # "waiting") =>
        /\ now' >= execution.failedAt + execution.delay * (execution.attempt + 1)
        /\ IF execution.invocations < execution.maxRetries
           THEN /\ execution'.pc = "querying"
                /\ execution'.invocations = execution.invocations + 1
           ELSE /\ execution'.pc = "thrown"
                /\ execution'.error = execution.lastError
                /\ execution'.invocations = execution.maxRetries

C39_Ended ==
    (execution.pc \in {"returned", "thrown"} /\ execution'.calls = execution.calls)
        => execution' = execution

C39_ExecuteWithRetry ==
    /\ []C39_AtMostMaxRetries
    /\ [][C39_Returns /\ C39_Rethrows /\ C39_Waits /\ C39_GoesOn /\ C39_Ended]_vars

\* queryFn failed three times with a retriable error, the third wait was of
\* three delays, and the last error was thrown
C39_Witness ==
    /\ execution.pc = "thrown"
    /\ execution.maxRetries = 3
    /\ execution.invocations = 3
    /\ execution.delay = 2000
    /\ execution.wakeAt = execution.failedAt + 6000
    /\ execution.error = [message |-> <<"request", "timeout">>, code |-> "none"]

\* the second invocation of queryFn returned, after the wait of one delay
C39_WitnessReturned ==
    /\ execution.pc = "returned"
    /\ execution.invocations = 2
    /\ execution.wakeAt = execution.failedAt + execution.delay
    /\ execution.result = "rows"

\* an error that is not retriable was thrown by the first invocation
C39_WitnessRethrown ==
    /\ execution.pc = "thrown"
    /\ execution.maxRetries = 3
    /\ execution.invocations = 1
    /\ execution.error = [message |-> <<"permission", "denied">>, code |-> "42501"]

(***************************************************************************)
(* SpecPrune: requestTracker alone, for somewhat more than two minutes, in *)
(* steps of ten seconds: calls to one endpoint at any time, and calls to   *)
(* another, a burst of them too, 60 and 70 seconds after the module was    *)
(* loaded                                                                  *)
(***************************************************************************)
PruneHorizon == StartTime + 2 * CleanupInterval + ThrottleDuration

NextPrune ==
    \/ Track(Resources, MaxCalls)
    \/ /\ now \in {StartTime + CleanupInterval, StartTime + CleanupInterval + ThrottleDuration}
       /\ Track(Items, MaxBurst)
    \/ \E tm \in timers : Unthrottle(tm)
    \/ Tick(ThrottleDuration, PruneHorizon)

SpecPrune == Init /\ [][NextPrune]_vars

(***************************************************************************)
(* C40 (checked under SpecPrune).  Bounded traffic records: timestamps     *)
(* leave a record, and lastCleanup changes, only in a call of track made   *)
(* more than 60 seconds after lastCleanup; that call leaves in every       *)
(* endpoint's record the timestamps that are less than 60 seconds old, in  *)
(* their order, and nothing else but its own timestamp, and it leaves the  *)
(* throttle flag and the last-warning time of the other endpoints as they  *)
(* are and changes those of its own endpoint only by marking it throttled  *)
(* now; and right after every call of track no record holds a timestamp    *)
(* older than 120 seconds.                                                 *)
(***************************************************************************)
\* the step is a call of track(endpoint)
IsTrack(endpoint) == endpoints' # endpoints /\ Track(endpoint, MaxBurst)

Stamps(eps, e) == {eps[e].timestamps[i] : i \in 1..Len(eps[e].timestamps)}

Younger(e) == SelectSeq(endpoints[e].timestamps, LAMBDA time : now - time < 60000)

C40_OnlyInTrack ==
    (\/ lastCleanup' # lastCleanup
     \/ \E e \in DOMAIN endpoints : ~(Stamps(endpoints, e) \subseteq Stamps(endpoints', e)))
        => /\ \E e \in {Items, Resources} : IsTrack(e)
           /\ now - lastCleanup > 60000
           /\ lastCleanup' = now

C40_Prunes ==
    \A e \in {Items, Resources} :
        (lastCleanup' # lastCleanup /\ IsTrack(e)) =>
            \A f \in DOMAIN endpoints :
                /\ endpoints'[f].timestamps = Younger(f) \o (IF f = e THEN <<now>> ELSE <<>>)
                /\ \/ /\ endpoints'[f].isThrottled = endpoints[f].isThrottled
                      /\ endpoints'[f].lastWarning = endpoints[f].lastWarning
                   \/ /\ f = e
                      /\ endpoints'[f].isThrottled
                      /\ endpoints'[f].lastWarning = now

C40_TwoMinutes ==
    \A e \in {Items, Resources} :
        IsTrack(e) =>
            \A f \in DOMAIN endpoints' : \A time \in Stamps(endpoints', f) : now - time <= 120000

C40_BoundedRecords == [][C40_OnlyInTrack /\ C40_Prunes /\ C40_TwoMinutes]_vars

\* a call of track('items') made 70 seconds after the module was loaded, ten
\* seconds after a burst had '/items' marked throttled, has pruned: the record
\* of '/resources' has lost every timestamp and '/items' is still throttled
C40_Witness ==
    /\ lastCleanup = StartTime + CleanupInterval + ThrottleDuration
    /\ Resources \in DOMAIN endpoints
    /\ endpoints[Resources].timestamps = <<>>
    /\ endpoints[Items].isThrottled
    /\ endpoints[Items].lastWarning = StartTime + CleanupInterval
    /\ Len(endpoints[Items].timestamps) = MaxBurst

\* a record holds a timestamp that is 110 seconds old right after a call of track
C40_WitnessOld ==
    /\ now = StartTime + 2 * CleanupInterval + ThrottleDuration
    /\ lastCleanup = StartTime + CleanupInterval + ThrottleDuration
    /\ Resources \in DOMAIN endpoints
    /\ endpoints[Resources].timestamps = <<StartTime + 2 * ThrottleDuration, now>>

====
